---- MODULE Spec2Model ----
(***************************************************************************)
(* Servicio24 WhatsApp lead-generation webhook (V3.3.2 and its predecessor *)
(* V3.3.1): the conversation state machine of POST /webhook, the session   *)
(* and cooldown stores, the ad-prefill parser and the free-text parser.    *)
(*                                                                         *)
(* Text is modelled as a sequence of characters (one-character strings;    *)
(* accented letters are the atoms "a_acute", "e_acute", "u_acute" ...), so *)
(* that trimming, case folding, splitting, percent-decoding, parseInt and  *)
(* the regular expressions are computed the way the code computes them.    *)
(***************************************************************************)
EXTENDS Integers, Sequences, FiniteSets, TLC

\* ------------------------------------------------------------------------
\* Characters and strings
\* ------------------------------------------------------------------------

\* JavaScript null / undefined for the string-valued fields
NULL == "null"

\* Maybe-values: <<>> is null/NaN/undefined, <<v>> is the value v
None == <<>>
Some(v) == <<v>>

UPPER == <<"A", "B", "C", "D", "E", "F", "G", "H", "I", "J", "K", "L", "M",
           "N", "O", "P", "Q", "R", "S", "T", "U", "V", "W", "X", "Y", "Z",
           "A_ACUTE", "E_ACUTE", "U_ACUTE">>
LOWER == <<"a", "b", "c", "d", "e", "f", "g", "h", "i", "j", "k", "l", "m",
           "n", "o", "p", "q", "r", "s", "t", "u", "v", "w", "x", "y", "z",
           "a_acute", "e_acute", "u_acute">>

DIGITS == <<"0", "1", "2", "3", "4", "5", "6", "7", "8", "9">>
HEXDIGITS == <<"0", "1", "2", "3", "4", "5", "6", "7", "8", "9",
               "A", "B", "C", "D", "E", "F">>

\* printable ASCII, code 32 (space) first
ASCII_PRINTABLE ==
  <<" ", "!", "\"", "#", "$", "%", "&", "'", "(", ")", "*", "+", ",", "-", ".", "/",
    "0", "1", "2", "3", "4", "5", "6", "7", "8", "9", ":", ";", "<", "=", ">", "?",
    "@", "A", "B", "C", "D", "E", "F", "G", "H", "I", "J", "K", "L", "M", "N", "O",
    "P", "Q", "R", "S", "T", "U", "V", "W", "X", "Y", "Z", "[", "\\", "]", "^", "_",
    "backtick", "a", "b", "c", "d", "e", "f", "g", "h", "i", "j", "k", "l", "m", "n", "o",
    "p", "q", "r", "s", "t", "u", "v", "w", "x", "y", "z", "{", "|", "}", "~">>

IndexIn(seq, c) == CHOOSE i \in 1..Len(seq) : seq[i] = c
InSeq(seq, c) == \E i \in 1..Len(seq) : seq[i] = c

IsDigit(c) == InSeq(DIGITS, c)
DigitVal(c) == IndexIn(DIGITS, c) - 1
IsSpace(c) == c \in {" ", "\t", "\n"}

\* \w of a JavaScript regular expression without the u flag: ASCII only
IsWordChar(c) ==
  \/ IsDigit(c)
  \/ c = "_"
  \/ \E i \in 1..26 : UPPER[i] = c \/ LOWER[i] = c

\* String.prototype.toLowerCase, one character
LowerChar(c) == IF InSeq(UPPER, c) THEN LOWER[IndexIn(UPPER, c)] ELSE c
toLowerCase(t) == [i \in 1..Len(t) |-> LowerChar(t[i])]

\* String.prototype.trim
RECURSIVE TrimLeft(_)
TrimLeft(t) ==
  IF t # <<>> /\ IsSpace(Head(t)) THEN TrimLeft(Tail(t)) ELSE t
RECURSIVE TrimRight(_)
TrimRight(t) ==
  IF t # <<>> /\ IsSpace(t[Len(t)]) THEN TrimRight(SubSeq(t, 1, Len(t) - 1)) ELSE t
trim(t) == TrimRight(TrimLeft(t))

\* k occurs in t at position i
MatchAt(t, k, i) ==
  /\ i >= 1
  /\ i + Len(k) - 1 <= Len(t)
  /\ SubSeq(t, i, i + Len(k) - 1) = k

\* String.prototype.includes / startsWith
includes(t, k) == \E i \in 1..(Len(t) - Len(k) + 1) : MatchAt(t, k, i)
startsWith(t, k) == MatchAt(t, k, 1)

\* String.prototype.split on a one-character separator
RECURSIVE split(_, _)
split(t, sep) ==
  IF \E i \in 1..Len(t) : t[i] = sep
    THEN LET i == CHOOSE j \in 1..Len(t) :
                    t[j] = sep /\ \A l \in 1..(j - 1) : t[l] # sep
         IN <<SubSeq(t, 1, i - 1)>> \o split(SubSeq(t, i + 1, Len(t)), sep)
    ELSE <<t>>

\* the run of leading digits of t, as a number, given the digits read so far
RECURSIVE DigitRun(_, _)
DigitRun(t, acc) ==
  IF t # <<>> /\ IsDigit(Head(t))
    THEN DigitRun(Tail(t), 10 * acc + DigitVal(Head(t)))
    ELSE acc

\* parseInt(t, 10): leading white space skipped, an optional sign, then the
\* longest run of digits; None is NaN
parseInt(t) ==
  LET u == TrimLeft(t)
      neg == u # <<>> /\ Head(u) = "-"
      v == IF u # <<>> /\ Head(u) \in {"-", "+"} THEN Tail(u) ELSE u
  IN IF v = <<>> \/ ~IsDigit(Head(v))
       THEN None
       ELSE Some(IF neg THEN 0 - DigitRun(v, 0) ELSE DigitRun(v, 0))

\* decodeURIComponent: %XX escapes become the character they encode. The
\* result is None when the code throws URIError (a % not followed by two
\* hexadecimal digits, or bytes that are not well-formed UTF-8). Of the
\* multi-byte sequences only the accented letters of the service catalog
\* are decoded; every other byte above 7F counts as malformed.
IsHex(c) == InSeq(HEXDIGITS, c) \/ c \in {"a", "b", "c", "d", "e", "f"}
HexVal(c) ==
  IF InSeq(HEXDIGITS, c) THEN IndexIn(HEXDIGITS, c) - 1
  ELSE IndexIn(<<"a", "b", "c", "d", "e", "f">>, c) + 9
ByteAt(t, i) == 16 * HexVal(t[i + 1]) + HexVal(t[i + 2])
IsEscape(t, i) == i + 2 <= Len(t) /\ t[i] = "%" /\ IsHex(t[i + 1]) /\ IsHex(t[i + 2])
TwoByte(b1, b2) ==
  IF b1 = 195 /\ b2 = 161 THEN Some("a_acute")
  ELSE IF b1 = 195 /\ b2 = 169 THEN Some("e_acute")
  ELSE IF b1 = 195 /\ b2 = 186 THEN Some("u_acute")
  ELSE None
RECURSIVE decodeFrom(_, _, _)
decodeFrom(t, i, acc) ==
  IF i > Len(t) THEN Some(acc)
  ELSE IF t[i] # "%" THEN decodeFrom(t, i + 1, Append(acc, t[i]))
  ELSE IF ~IsEscape(t, i) THEN None
  ELSE LET b == ByteAt(t, i)
       IN IF b >= 32 /\ b <= 126
            THEN decodeFrom(t, i + 3, Append(acc, ASCII_PRINTABLE[b - 31]))
          ELSE IF b = 9 THEN decodeFrom(t, i + 3, Append(acc, "\t"))
          ELSE IF b = 10 THEN decodeFrom(t, i + 3, Append(acc, "\n"))
          ELSE IF IsEscape(t, i + 3) /\ TwoByte(b, ByteAt(t, i + 3)) # None
            THEN decodeFrom(t, i + 6, Append(acc, TwoByte(b, ByteAt(t, i + 3))[1]))
          ELSE None
decodeURIComponent(t) == decodeFrom(t, 1, <<>>)

\* ------------------------------------------------------------------------
\* Static data
\* ------------------------------------------------------------------------

\* CITIES: id is the identifier as an atom, chars the same identifier as text
CITIES ==
  << [id |-> "city_guatemala",
      chars |-> <<"c", "i", "t", "y", "_", "g", "u", "a", "t", "e", "m", "a",
                  "l", "a">>] >>

\* SERVICES in catalog order: id, the id as text, and the display label
SERVICES ==
  << [id |-> "srv_plomero",
      chars |-> <<"s", "r", "v", "_", "p", "l", "o", "m", "e", "r", "o">>,
      label |-> <<"P", "l", "o", "m", "e", "r", "o">>],
     [id |-> "srv_electricista",
      chars |-> <<"s", "r", "v", "_", "e", "l", "e", "c", "t", "r", "i", "c",
                  "i", "s", "t", "a">>,
      label |-> <<"E", "l", "e", "c", "t", "r", "i", "c", "i", "s", "t", "a">>],
     [id |-> "srv_cerrajero",
      chars |-> <<"s", "r", "v", "_", "c", "e", "r", "r", "a", "j", "e", "r",
                  "o">>,
      label |-> <<"C", "e", "r", "r", "a", "j", "e", "r", "o">>],
     [id |-> "srv_aire",
      chars |-> <<"s", "r", "v", "_", "a", "i", "r", "e">>,
      label |-> <<"A", "i", "r", "e", " ", "a", "c", "o", "n", "d", "i", "c",
                  "i", "o", "n", "a", "d", "o">>],
     [id |-> "srv_mecanico",
      chars |-> <<"s", "r", "v", "_", "m", "e", "c", "a", "n", "i", "c", "o">>,
      label |-> <<"M", "e", "c", "a_acute", "n", "i", "c", "o">>],
     [id |-> "srv_grua",
      chars |-> <<"s", "r", "v", "_", "g", "r", "u", "a">>,
      label |-> <<"S", "e", "r", "v", "i", "c", "i", "o", " ", "d", "e", " ",
                  "g", "r", "u_acute", "a">>],
     [id |-> "srv_mudanza",
      chars |-> <<"s", "r", "v", "_", "m", "u", "d", "a", "n", "z", "a">>,
      label |-> <<"M", "u", "d", "a", "n", "z", "a">>] >>

\* SERVICE_NAME_TO_ID in the insertion order of its keys: the lower-cased
\* labels first, then the synonyms that are not labels
SERVICE_NAME_TO_ID ==
  << [k |-> <<"p", "l", "o", "m", "e", "r", "o">>,
      v |-> "srv_plomero"],
     [k |-> <<"e", "l", "e", "c", "t", "r", "i", "c", "i", "s", "t", "a">>,
      v |-> "srv_electricista"],
     [k |-> <<"c", "e", "r", "r", "a", "j", "e", "r", "o">>,
      v |-> "srv_cerrajero"],
     [k |-> <<"a", "i", "r", "e", " ", "a", "c", "o", "n", "d", "i", "c",
              "i", "o", "n", "a", "d", "o">>,
      v |-> "srv_aire"],
     [k |-> <<"m", "e", "c", "a_acute", "n", "i", "c", "o">>,
      v |-> "srv_mecanico"],
     [k |-> <<"s", "e", "r", "v", "i", "c", "i", "o", " ", "d", "e", " ",
              "g", "r", "u_acute", "a">>,
      v |-> "srv_grua"],
     [k |-> <<"m", "u", "d", "a", "n", "z", "a">>,
      v |-> "srv_mudanza"],
     [k |-> <<"a", "i", "r", "e">>,
      v |-> "srv_aire"],
     [k |-> <<"m", "e", "c", "a", "n", "i", "c", "o">>,
      v |-> "srv_mecanico"],
     [k |-> <<"g", "r", "u", "a">>,
      v |-> "srv_grua"],
     [k |-> <<"g", "r", "u_acute", "a">>,
      v |-> "srv_grua"] >>

\* SERVICE_LABEL[x] is defined: x is the identifier of a catalog service
HasServiceLabel(x) == \E i \in 1..Len(SERVICES) : SERVICES[i].chars = x
ServiceOfChars(x) == SERVICES[CHOOSE i \in 1..Len(SERVICES) : SERVICES[i].chars = x].id
ServiceChars(id) == SERVICES[CHOOSE i \in 1..Len(SERVICES) : SERVICES[i].id = id].chars
ServiceIds == {SERVICES[i].id : i \in 1..Len(SERVICES)}

\* SERVICE_NAME_TO_ID[x], NULL when x is no key
HasServiceName(x) == \E i \in 1..Len(SERVICE_NAME_TO_ID) : SERVICE_NAME_TO_ID[i].k = x
ServiceNameToId(x) ==
  IF HasServiceName(x)
    THEN SERVICE_NAME_TO_ID[CHOOSE i \in 1..Len(SERVICE_NAME_TO_ID) :
                              SERVICE_NAME_TO_ID[i].k = x].v
    ELSE NULL

\* the null zone of a session or of a parse result (an absent zone and the
\* number 0 are both falsy in the code, and no zone below 1 is ever stored)
NoZone == 0

\* ------------------------------------------------------------------------
\* Ads prefill parsing
\* ------------------------------------------------------------------------

TagAd == <<"#", "a", "d">>

\* position after the white space that follows position i
RECURSIVE SkipSpace(_, _)
SkipSpace(t, i) == IF i <= Len(t) /\ IsSpace(t[i]) THEN SkipSpace(t, i + 1) ELSE i

\* text.match(/#ad\s+(.+)$/i): the captured group of the leftmost match, or
\* None. The group starts after the white space that follows the marker and
\* runs to the end of the text; it is not empty and holds no line break.
AdMatchAt(t, i) ==
  /\ MatchAt(toLowerCase(t), TagAd, i)
  /\ i + 3 <= Len(t)
  /\ IsSpace(t[i + 3])
  /\ SkipSpace(t, i + 3) <= Len(t)
  /\ \A j \in SkipSpace(t, i + 3)..Len(t) : t[j] # "\n"
AdQuery(t) ==
  IF \E i \in 1..Len(t) : AdMatchAt(t, i)
    THEN LET i == CHOOSE j \in 1..Len(t) :
                    AdMatchAt(t, j) /\ \A l \in 1..(j - 1) : ~AdMatchAt(t, l)
         IN Some(SubSeq(t, SkipSpace(t, i + 3), Len(t)))
    ELSE None

\* one key=value piece of the query string: key and value trimmed, the value
\* percent-decoded. skip: the key is empty; bad: decodeURIComponent throws
AdPair(kv) ==
  LET parts == split(kv, "=")
      k == trim(parts[1])
      v == IF Len(parts) >= 2 THEN trim(parts[2]) ELSE <<>>
      d == decodeURIComponent(v)
  IN [skip |-> k = <<>>,
      bad |-> k # <<>> /\ d = None,
      k |-> toLowerCase(k),
      v |-> IF d = None THEN <<>> ELSE d[1]]

\* params.<key> || ... : the value last assigned to key, <<>> when the key
\* is absent or its value is the empty string (both are falsy)
ParamGet(pairs, key) ==
  IF \E i \in 1..Len(pairs) : ~pairs[i].skip /\ pairs[i].k = key
    THEN pairs[CHOOSE i \in 1..Len(pairs) :
                 /\ ~pairs[i].skip /\ pairs[i].k = key
                 /\ \A j \in (i + 1)..Len(pairs) :
                      pairs[j].skip \/ pairs[j].k # key].v
    ELSE <<>>
FirstTruthy(a, b, c) == IF a # <<>> THEN a ELSE IF b # <<>> THEN b ELSE c

\* the parameter names of the tag
K ==
  [city |-> <<"c", "i", "t", "y">>,
   ciudad |-> <<"c", "i", "u", "d", "a", "d">>,
   c |-> <<"c">>,
   zone |-> <<"z", "o", "n", "e">>,
   zona |-> <<"z", "o", "n", "a">>,
   z |-> <<"z">>,
   service |-> <<"s", "e", "r", "v", "i", "c", "e">>,
   servicio |-> <<"s", "e", "r", "v", "i", "c", "i", "o">>,
   s |-> <<"s">>,
   lang |-> <<"l", "a", "n", "g">>,
   cid |-> <<"c", "i", "d">>,
   campaign |-> <<"c", "a", "m", "p", "a", "i", "g", "n">>]
SrvPrefix == <<"s", "r", "v", "_">>
LangEs == <<"e", "s">>
LangEn == <<"e", "n">>

\* the three outcomes of parseAdParams: null, an exception, or a result
AdNull ==
  [r |-> "null", city |-> NULL, zone |-> NoZone, serviceId |-> NULL,
   lang |-> "es", campaign_id |-> <<>>]
AdThrow == [AdNull EXCEPT !.r = "throw"]

\* "normalize service" and "strict service check"
AdServiceId(service) ==
  LET sv == toLowerCase(service)
      first == IF HasServiceLabel(sv) THEN sv
               ELSE IF HasServiceName(sv) THEN ServiceChars(ServiceNameToId(sv))
               ELSE <<>>
      second == IF first = <<>> /\ startsWith(sv, SrvPrefix) THEN sv ELSE first
  IN IF service = <<>> THEN NULL
     ELSE IF second # <<>> /\ HasServiceLabel(second) THEN ServiceOfChars(second)
     ELSE NULL

\* the zone parameter: an integer in 1..25, otherwise null
AdZone(zoneStr) ==
  LET zz == parseInt(zoneStr)
  IN IF zoneStr = <<>> THEN NoZone
     ELSE IF zz # None /\ zz[1] >= 1 /\ zz[1] <= 25 THEN zz[1]
     ELSE NoZone

\* "normalize city - default Guatemala City"
AdCity(cityId) ==
  IF cityId # <<>> /\ \E i \in 1..Len(CITIES) : CITIES[i].chars = cityId
    THEN CITIES[CHOOSE i \in 1..Len(CITIES) : CITIES[i].chars = cityId].id
    ELSE CITIES[1].id

AdLang(lang) ==
  LET l == toLowerCase(IF lang = <<>> THEN LangEs ELSE lang)
  IN IF l = LangEn THEN "en" ELSE "es"

parseAdParams(rawText) ==
  LET text == trim(rawText)
      m == AdQuery(text)
      kvs == split(m[1], "&")
      pairs == [i \in 1..Len(kvs) |-> AdPair(kvs[i])]
  IN IF rawText = <<>> \/ m = None THEN AdNull
     ELSE IF \E i \in 1..Len(pairs) : pairs[i].bad THEN AdThrow
     ELSE [r |-> "ad",
           city |-> AdCity(FirstTruthy(ParamGet(pairs, K.city),
                                       ParamGet(pairs, K.ciudad),
                                       ParamGet(pairs, K.c))),
           zone |-> AdZone(FirstTruthy(ParamGet(pairs, K.zone),
                                       ParamGet(pairs, K.zona),
                                       ParamGet(pairs, K.z))),
           serviceId |-> AdServiceId(FirstTruthy(ParamGet(pairs, K.service),
                                                 ParamGet(pairs, K.servicio),
                                                 ParamGet(pairs, K.s))),
           lang |-> AdLang(ParamGet(pairs, K.lang)),
           campaign_id |-> FirstTruthy(ParamGet(pairs, K.cid),
                                       ParamGet(pairs, K.campaign), <<>>)]

\* ------------------------------------------------------------------------
\* Regex free-text parser
\* ------------------------------------------------------------------------

\* the words the free-text patterns look for
W ==
  [zona |-> <<"z", "o", "n", "a">>,
   urgente |-> <<"u", "r", "g", "e", "n", "t", "e">>,
   ahora |-> <<"a", "h", "o", "r", "a">>,
   ya |-> <<"y", "a">>,
   no_urgente |-> <<"n", "o", " ", "u", "r", "g", "e", "n", "t", "e">>,
   despues |-> <<"d", "e", "s", "p", "u", "e", "s">>,
   despues_acc |-> <<"d", "e", "s", "p", "u", "e_acute", "s">>,
   luego |-> <<"l", "u", "e", "g", "o">>]

\* \bword\b matches somewhere in t (the first and last characters of every
\* word used here are word characters)
WordAt(t, w, i) ==
  /\ MatchAt(t, w, i)
  /\ (i = 1 \/ ~IsWordChar(t[i - 1]))
  /\ (i + Len(w) > Len(t) \/ ~IsWordChar(t[i + Len(w)]))
HasWord(t, w) == \E i \in 1..Len(t) : WordAt(t, w, i)

\* the first service whose lower-cased label occurs in t, in catalog order
FreeServiceByLabel(t) ==
  IF \E i \in 1..Len(SERVICES) : includes(t, toLowerCase(SERVICES[i].label))
    THEN SERVICES[CHOOSE i \in 1..Len(SERVICES) :
                    /\ includes(t, toLowerCase(SERVICES[i].label))
                    /\ \A j \in 1..(i - 1) :
                         ~includes(t, toLowerCase(SERVICES[j].label))].id
    ELSE NULL

\* "synonyms quick pass": the first key of SERVICE_NAME_TO_ID that occurs in t
FreeServiceBySynonym(t) ==
  IF \E i \in 1..Len(SERVICE_NAME_TO_ID) : includes(t, SERVICE_NAME_TO_ID[i].k)
    THEN SERVICE_NAME_TO_ID[CHOOSE i \in 1..Len(SERVICE_NAME_TO_ID) :
                              /\ includes(t, SERVICE_NAME_TO_ID[i].k)
                              /\ \A j \in 1..(i - 1) :
                                   ~includes(t, SERVICE_NAME_TO_ID[j].k)].v
    ELSE NULL

\* t.match(/zona\s*([0-9]{1,2})/): "zona", any white space, then one or two
\* digits; the leftmost match decides
ZonaMatchAt(t, i) ==
  /\ MatchAt(t, W.zona, i)
  /\ SkipSpace(t, i + 4) <= Len(t)
  /\ IsDigit(t[SkipSpace(t, i + 4)])
FreeZona(t) ==
  IF \E i \in 1..Len(t) : ZonaMatchAt(t, i)
    THEN LET i == CHOOSE j \in 1..Len(t) :
                    ZonaMatchAt(t, j) /\ \A l \in 1..(j - 1) : ~ZonaMatchAt(t, l)
             d == SkipSpace(t, i + 4)
             two == d + 1 <= Len(t) /\ IsDigit(t[d + 1])
             z == parseInt(SubSeq(t, d, IF two THEN d + 1 ELSE d))
         IN IF z # None /\ z[1] >= 1 /\ z[1] <= 25 THEN z[1] ELSE NoZone
    ELSE NoZone

FreeUrgency(t) ==
  IF HasWord(t, W.urgente) \/ HasWord(t, W.ahora) \/ HasWord(t, W.ya)
    THEN "Ahora"
  ELSE IF \/ HasWord(t, W.no_urgente) \/ HasWord(t, W.despues)
          \/ HasWord(t, W.despues_acc) \/ HasWord(t, W.luego)
    THEN "Luego"
  ELSE NULL

parseFreeTextToLeadParts(text) ==
  LET t == toLowerCase(text)
      byLabel == FreeServiceByLabel(t)
  IN [serviceId |-> IF byLabel # NULL THEN byLabel ELSE FreeServiceBySynonym(t),
      zona |-> FreeZona(t),
      urgency |-> FreeUrgency(t)]

\* ------------------------------------------------------------------------
\* State
\* ------------------------------------------------------------------------

VARIABLES
  env,             \* the deployment: code version, store backend, ADMIN_PHONE
  sess,            \* the session store entry of the user: None or Some(session)
  cool,            \* the cooldown marker of the user is present
  ev,              \* the event handled last, with what held when it arrived
  out,             \* the sends issued while handling it, in order
  leads,           \* the leads passed to saveLeadToSupabase while handling it
  steps,           \* the operations the handler reached, in program order
  leadSinceFresh,  \* a lead was emitted since the session was last created
  textSinceFresh,  \* a text was handled since the session was last created
  acks,            \* times finalAcked went false -> true in this cooldown window
  calc,            \* a call of scoreLead or pickSuppliers: its arguments and result
  wa,              \* the delivery of the messages issued: queue, worker, inbox
  tm,              \* the clock and the pending expiries of the two stores
  hs               \* two handlers of the same user running side by side

vars ==
  <<env, sess, cool, ev, out, leads, steps, leadSinceFresh, textSinceFresh, acks,
    calc, wa, tm, hs>>

\* the user whose conversation is modelled (msg.from)
USER == "user"
ADMIN == "admin"

DefaultCityTitle == "Ciudad de Guatemala"
CityTitle(city) == DefaultCityTitle

\* the session created for an unseen user, after a reset and after a purge
FreshSession ==
  [city |-> NULL, zone |-> NoZone, zoneConfirmed |-> FALSE,
   serviceId |-> NULL, urgency |-> NULL,
   started |-> FALSE, state |-> "MENU", lastConfirmation |-> None,
   finalAcked |-> FALSE, source |-> NULL, adLockCity |-> FALSE,
   lang |-> "es", campaign_id |-> <<>>,
   role |-> "cliente", pendingConfirm |-> None, techServiceId |-> NULL]

\* ------------------------------------------------------------------------
\* Outbound messages
\* ------------------------------------------------------------------------

Msg(kind, p) == [kind |-> kind, p |-> p]

\* the text of the final card: service text, city title and zone
FinalText(cityTitle, zone, serviceId) ==
  [svc |-> IF serviceId \in ServiceIds THEN serviceId ELSE "Profesional",
   city |-> cityTitle, zone |-> zone]

sendStartConfirm == Msg("StartConfirm", <<>>)
sendRoleButtons == Msg("RoleButtons", <<>>)
sendCityMenu == Msg("CityMenu", <<>>)
sendZonaGroupButtons == Msg("ZonaGroupButtons", <<>>)
sendZonaList(start, end) == Msg("ZonaList", <<start, end>>)
sendZonaConfirm(z) == Msg("ZonaConfirm", <<z>>)
sendServicesList(cityTitle, z) == Msg("ServicesList", <<cityTitle, z>>)
sendUrgencyQuestion == Msg("UrgencyQuestion", <<>>)
sendFinalInteractive(finalText) == Msg("Final", <<finalText>>)
sendAdConfirm(cityTitle, zone, serviceId) ==
  Msg("AdConfirm", <<cityTitle, zone, serviceId>>)
sendText(what) == Msg("Text", <<what>>)
sendRegexConfirmCard(serviceId, zona, urgencyText) ==
  Msg("RegexConfirm", <<serviceId, zona, urgencyText>>)
sendTechServiceList == Msg("TechServiceList", <<>>)

\* ------------------------------------------------------------------------
\* The steps of a handler. A handler is a script: the sequence of store
\* operations, sends and lead emissions it performs, in program order.
\* ------------------------------------------------------------------------

OpSessSet(s) == [op |-> "sessSet", s |-> s]
OpAssign(s) == [op |-> "assign", s |-> s]
OpSessDel == [op |-> "sessDel"]
OpCoolSet == [op |-> "coolSet"]
OpCoolDel == [op |-> "coolDel"]
OpSend(to, m) == [op |-> "send", to |-> to, m |-> m, caught |-> FALSE]
OpSendCaught(to, m) == [op |-> "send", to |-> to, m |-> m, caught |-> TRUE]
OpInsertLead(lead, saved, backedUp) ==
  [op |-> "insertLead", lead |-> lead, saved |-> saved, backedUp |-> backedUp]
OpThrow == [op |-> "throw"]

\* ------------------------------------------------------------------------
\* Lead scoring, persistence and routing
\* ------------------------------------------------------------------------

LabelOf(serviceId) ==
  IF serviceId \in ServiceIds
    THEN SERVICES[CHOOSE i \in 1..Len(SERVICES) : SERVICES[i].id = serviceId].label
    ELSE <<>>

UrgencyLabel(urgency) == IF urgency = "now" THEN "Ahora" ELSE "Luego"

HighPriorityServices == {"srv_plomero", "srv_electricista", "srv_cerrajero"}
HighValueZones == {10, 14, 15}
Min(a, b) == IF a < b THEN a ELSE b

\* a score that looks at the urgency only
scoreLead_urgencyOnly(lead) == IF lead.urgency = "Ahora" THEN 40 ELSE 0
scoreLead(lead) ==
  LET u == IF lead.urgency = "Ahora" THEN 40 ELSE 0
      sid == ServiceNameToId(toLowerCase(lead.service))
      sv == IF sid # NULL /\ sid \in HighPriorityServices THEN 30 ELSE 0
      z == IF lead.zona \in HighValueZones THEN 20 ELSE 0
  IN Min(100, u + sv + z)

\* the lead object built from the session by the completion handlers
BuildLead(s) ==
  [phone |-> USER, city |-> CityTitle(s.city), zona |-> s.zone,
   service |-> LabelOf(s.serviceId), urgency |-> UrgencyLabel(s.urgency),
   lang |-> s.lang, campaign_id |-> s.campaign_id, lead_score |-> None]
WithScore(lead) == [lead EXCEPT !.lead_score = Some(scoreLead(lead))]

\* saveLeadToSupabase. dbOk: the insert succeeded; fsOk: the backup append
\* succeeded. V3.3.2 backs up and alerts the admin on failure, V3.3.1 only
\* reports the failure.
saveLeadToSupabase(lead, version, adminPhone, dbOk, fsOk) ==
  IF version = "V3.3.1" THEN <<OpInsertLead(lead, dbOk, FALSE)>>
  ELSE IF dbOk THEN <<OpInsertLead(lead, TRUE, FALSE)>>
  ELSE <<OpInsertLead(lead, FALSE, fsOk)>>
       \o (IF adminPhone THEN <<OpSend(ADMIN, Msg("AdminAlert", <<lead.zona>>))>>
           ELSE <<>>)

\* the service id pickSuppliers looks suppliers up by
RouteServiceId(lead) ==
  LET byName == ServiceNameToId(toLowerCase(lead.service))
  IN IF byName # NULL THEN byName
     ELSE IF \E i \in 1..Len(SERVICES) : SERVICES[i].label = lead.service
       THEN SERVICES[CHOOSE i \in 1..Len(SERVICES) :
                       SERVICES[i].label = lead.service].id
     ELSE NULL

Abs(n) == IF n < 0 THEN 0 - n ELSE n
RECURSIVE Filter(_, _, _)
Filter(rows, zona, d) ==
  IF rows = <<>> THEN <<>>
  ELSE (IF Abs(Head(rows).zona - zona) = d THEN <<Head(rows)>> ELSE <<>>)
       \o Filter(Tail(rows), zona, d)
RECURSIVE DedupById(_, _)
DedupById(rows, seen) ==
  IF rows = <<>> THEN <<>>
  ELSE IF Head(rows).id \in seen THEN DedupById(Tail(rows), seen)
  ELSE <<Head(rows)>> \o DedupById(Tail(rows), seen \cup {Head(rows).id})

\* a ranking that keeps the duplicates of the concatenation
TopSuppliers_noDedup(techs, zona) ==
  LET ordered == Filter(techs, zona, 0) \o Filter(techs, zona, 1) \o techs
  IN SubSeq(ordered, 1, Min(3, Len(ordered)))
\* the suppliers pickSuppliers notifies: exact zone, then zone +-1, then the
\* rest, without duplicates, three at most
TopSuppliers(techs, zona) ==
  LET ordered == DedupById(Filter(techs, zona, 0) \o Filter(techs, zona, 1) \o techs, {})
  IN SubSeq(ordered, 1, Min(3, Len(ordered)))

\* pickSuppliers. q is the answer of the technicians query: an error or rows.
\* a routing whose notification sends are not caught
pickSuppliers_uncaught(lead, q) ==
  IF RouteServiceId(lead) = NULL \/ q.error \/ q.rows = <<>> THEN <<>>
  ELSE LET top == TopSuppliers(q.rows, lead.zona)
       IN [i \in 1..Len(top) |->
             OpSend(top[i].phone, Msg("LeadNotify", <<lead.zona, top[i].id>>))]
pickSuppliers(lead, q) ==
  IF RouteServiceId(lead) = NULL \/ q.error \/ q.rows = <<>> THEN <<>>
  ELSE LET top == TopSuppliers(q.rows, lead.zona)
       IN [i \in 1..Len(top) |->
             OpSendCaught(top[i].phone, Msg("LeadNotify", <<lead.zona, top[i].id>>))]

\* ------------------------------------------------------------------------
\* POST /webhook: text messages
\* ------------------------------------------------------------------------

RESET_MAGIC == <<"o", "g", "a">>

\* a reset that leaves the cooldown marker in place
ResetScript_keepsCooldown ==
  <<OpSessDel, OpSessSet(FreshSession), OpSend(USER, sendStartConfirm)>>

\* "Reset magic"
ResetScript ==
  <<OpCoolDel, OpSessDel, OpSessSet(FreshSession), OpSend(USER, sendStartConfirm)>>

\* the session is deleted, a fresh one stored and the start card sent
PurgeScript ==
  <<OpSessDel, OpSessSet(FreshSession), OpSend(USER, sendStartConfirm)>>

\* a prefill condition that does not ask for the service
AdActionable_ignoresService(ad) ==
  ad.r = "ad" /\ ad.city # NULL /\ ad.zone # NoZone

\* "first text - try Ads prefill": the condition and the session written
AdActionable(ad) ==
  ad.r = "ad" /\ ad.city # NULL /\ ad.zone # NoZone /\ ad.serviceId # NULL
AdApply(s, ad) ==
  [s EXCEPT !.started = TRUE, !.source = "ad", !.adLockCity = TRUE,
            !.city = ad.city, !.zone = ad.zone, !.zoneConfirmed = TRUE,
            !.serviceId = ad.serviceId, !.urgency = NULL, !.state = "MENU",
            !.finalAcked = FALSE, !.lang = ad.lang,
            !.campaign_id = ad.campaign_id]
AdPrefillScript(s, ad) ==
  <<OpSessSet(AdApply(s, ad)),
    OpSend(USER, sendAdConfirm(CityTitle(ad.city), ad.zone, ad.serviceId))>>

\* "if state DONE - cooling behavior"
DoneTextScript(s, coolHas) ==
  IF coolHas
    THEN IF s.finalAcked THEN <<>>
         ELSE LET fallback ==
                    IF s.lastConfirmation # None THEN s.lastConfirmation[1]
                    ELSE FinalText(CityTitle(s.city), s.zone, s.serviceId)
              IN <<OpSend(USER, sendFinalInteractive(fallback)),
                   OpSessSet([s EXCEPT !.finalAcked = TRUE])>>
    ELSE PurgeScript

\* "Regex free-text intake": the partial lead merged from the parse result
\* and the session
PendingOf(s, parts) ==
  [serviceId |-> IF parts.serviceId # NULL THEN parts.serviceId ELSE s.serviceId,
   zona |-> IF parts.zona # NoZone THEN parts.zona ELSE s.zone,
   urgency |-> IF parts.urgency # NULL THEN parts.urgency ELSE s.urgency]
FreeTextParsed(parts) ==
  parts.serviceId # NULL \/ parts.zona # NoZone \/ parts.urgency # NULL
FreeTextPrompt(pc) ==
  IF pc.serviceId = NULL THEN sendText("ask_service")
  ELSE IF pc.zona = NoZone THEN sendText("ask_zone")
  ELSE IF pc.urgency = NULL THEN sendUrgencyQuestion
  ELSE sendRegexConfirmCard(pc.serviceId, pc.zona,
                            IF pc.urgency = "Ahora" THEN "Urgente" ELSE "Para luego")
FreeTextScript(s, parts) ==
  LET s1 == [s EXCEPT !.pendingConfirm = Some(PendingOf(s, parts))]
  IN <<OpAssign(s1), OpSend(USER, FreeTextPrompt(PendingOf(s, parts))), OpSessSet(s1)>>

\* recoverUI of V3.3.2
recoverUI(s) ==
  IF ~s.started THEN <<OpSend(USER, sendStartConfirm)>>
  ELSE IF s.city = NULL THEN <<OpSend(USER, sendCityMenu)>>
  ELSE IF s.zone = NoZone THEN <<OpSend(USER, sendZonaGroupButtons)>>
  ELSE IF ~s.zoneConfirmed THEN <<OpSend(USER, sendZonaConfirm(s.zone))>>
  ELSE IF s.serviceId = NULL
    THEN <<OpSend(USER, sendServicesList(CityTitle(s.city), s.zone))>>
  ELSE IF s.urgency = NULL THEN <<OpSend(USER, sendUrgencyQuestion)>>
  ELSE LET finalText == FinalText(CityTitle(s.city), s.zone, s.serviceId)
       IN <<OpSend(USER, sendFinalInteractive(finalText)),
            OpSessSet([s EXCEPT !.state = "DONE",
                                !.lastConfirmation = Some(finalText),
                                !.finalAcked = FALSE])>>

\* recoverUI of V3.3.1
recoverUI_V331(s, coolHas) ==
  IF ~s.started THEN <<OpSend(USER, sendStartConfirm)>>
  ELSE IF s.city = NULL THEN <<OpSend(USER, sendCityMenu)>>
  ELSE IF s.zone = NoZone THEN <<OpSend(USER, sendZonaGroupButtons)>>
  ELSE IF ~s.zoneConfirmed THEN <<OpSend(USER, sendZonaConfirm(s.zone))>>
  ELSE IF s.serviceId = NULL
    THEN <<OpSend(USER, sendServicesList(CityTitle(s.city), s.zone))>>
  ELSE IF s.urgency = NULL THEN <<OpSend(USER, sendUrgencyQuestion)>>
  ELSE IF s.state = "DONE"
    THEN IF coolHas
           THEN IF ~s.finalAcked
                  THEN LET finalText ==
                             FinalText(CityTitle(s.city), s.zone, s.serviceId)
                       IN <<OpSend(USER, sendFinalInteractive(finalText)),
                            OpSessSet([s EXCEPT !.lastConfirmation = Some(finalText),
                                                !.finalAcked = FALSE])>>
                  ELSE <<>>
           ELSE PurgeScript
  ELSE <<OpSend(USER, sendStartConfirm)>>

\* the text branch of the handler
\* body is bodyRaw.trim().toLowerCase(), ad is parseAdParams(bodyRaw) and parts
\* is parseFreeTextToLeadParts(bodyRaw)
TextScript(s, coolHas, body, ad, parts, version) ==
  IF body = RESET_MAGIC THEN ResetScript
  ELSE IF ~s.started /\ ad.r = "throw" THEN <<OpThrow>>
  ELSE IF ~s.started /\ AdActionable(ad) THEN AdPrefillScript(s, ad)
  ELSE IF s.state = "DONE" THEN DoneTextScript(s, coolHas)
  ELSE IF version = "V3.3.1" THEN recoverUI_V331(s, coolHas)
  ELSE IF FreeTextParsed(parts) THEN FreeTextScript(s, parts)
  ELSE recoverUI(s)

\* "fallback if city missing": the end of the handler, reached by every
\* event no branch returned for
TailScript(s) == IF s.city = NULL THEN <<OpSend(USER, sendCityMenu)>> ELSE <<>>

\* ------------------------------------------------------------------------
\* POST /webhook: list replies
\* ------------------------------------------------------------------------

IsCityId(id) == \E i \in 1..Len(CITIES) : CITIES[i].chars = id
CityOfChars(id) == CITIES[CHOOSE i \in 1..Len(CITIES) : CITIES[i].chars = id].id

\* parseInt(id.split("_")[1], 10) is a zone number
ZonaOfId(id) ==
  LET parts == split(id, "_")
  IN IF Len(parts) >= 2 THEN parseInt(parts[2]) ELSE None
IsZonaId(id) ==
  startsWith(id, <<"z", "o", "n", "a", "_">>)
  /\ ZonaOfId(id) # None /\ ZonaOfId(id)[1] >= 1 /\ ZonaOfId(id)[1] <= 25

\* an exact-zone selection that keeps the service
ZonaSelected_keepsService(s, z) ==
  [s EXCEPT !.zone = z, !.zoneConfirmed = FALSE, !.urgency = NULL,
            !.state = "MENU", !.finalAcked = FALSE]

\* a city lock that never refuses
CityLocked_never(s) == FALSE
\* "city (only if not ad-locked)"
CityLocked(s) == s.adLockCity

\* a service selection that is never refused
ServiceRefused_never(s) == FALSE
\* "service": refused while the zone is not confirmed
ServiceRefused(s) == ~s.zoneConfirmed

CitySelected(s, id) ==
  [s EXCEPT !.city = CityOfChars(id), !.zone = NoZone, !.zoneConfirmed = FALSE,
            !.serviceId = NULL, !.urgency = NULL, !.started = TRUE,
            !.state = "MENU", !.finalAcked = FALSE]
ZonaSelected(s, z) ==
  [s EXCEPT !.zone = z, !.zoneConfirmed = FALSE, !.serviceId = NULL,
            !.urgency = NULL, !.state = "MENU", !.finalAcked = FALSE]
ServiceSelected(s, id) ==
  [s EXCEPT !.serviceId = ServiceOfChars(id), !.urgency = NULL,
            !.finalAcked = FALSE]

\* the technician zone branch of V3.3.2, after the button branch
TechZonaScript(s, id, techOk) ==
  IF startsWith(id, <<"z", "o", "n", "a", "_">>) /\ s.role = "tecnico"
     /\ s.techServiceId # NULL /\ IsZonaId(id)
    THEN <<OpSend(USER, sendText(IF techOk THEN "tech_done" ELSE "tech_fail")),
           OpSessSet([s EXCEPT !.techServiceId = NULL])>>
    ELSE TailScript(s)

ListScript(s, id, version, techOk) ==
  IF IsCityId(id)
    THEN IF CityLocked(s) THEN <<OpSend(USER, sendZonaGroupButtons)>>
         ELSE <<OpSessSet(CitySelected(s, id)), OpSend(USER, sendZonaGroupButtons)>>
  ELSE IF IsZonaId(id)
    THEN <<OpSessSet(ZonaSelected(s, ZonaOfId(id)[1])),
           OpSend(USER, sendZonaConfirm(ZonaOfId(id)[1]))>>
  ELSE IF HasServiceLabel(id)
    THEN IF ServiceRefused(s)
           THEN <<OpSend(USER, sendText("first_zone")),
                  OpSend(USER, sendZonaGroupButtons)>>
           ELSE <<OpSessSet(ServiceSelected(s, id)), OpSend(USER, sendUrgencyQuestion)>>
  ELSE IF version = "V3.3.2" THEN TechZonaScript(s, id, techOk)
  ELSE TailScript(s)

\* ------------------------------------------------------------------------
\* Reply identifiers
\* ------------------------------------------------------------------------

\* the ids the handler tests a reply for, and the list ids of a zone, of a
\* zone out of range and of a service
ID ==
  [start_yes |-> <<"s", "t", "a", "r", "t", "_", "y", "e", "s">>,
   start_no |-> <<"s", "t", "a", "r", "t", "_", "n", "o">>,
   role_cliente |-> <<"r", "o", "l", "e", "_", "c", "l", "i", "e", "n", "t",
        "e">>,
   role_tecnico |-> <<"r", "o", "l", "e", "_", "t", "e", "c", "n", "i", "c",
        "o">>,
   zona_group_1_10 |-> <<"z", "o", "n", "a", "_", "g", "r", "o", "u", "p",
        "_", "1", "_", "1", "0">>,
   zona_group_11_20 |-> <<"z", "o", "n", "a", "_", "g", "r", "o", "u", "p",
        "_", "1", "1", "_", "2", "0">>,
   zona_group_21_25 |-> <<"z", "o", "n", "a", "_", "g", "r", "o", "u", "p",
        "_", "2", "1", "_", "2", "5">>,
   zona_change |-> <<"z", "o", "n", "a", "_", "c", "h", "a", "n", "g", "e">>,
   zona_confirm |-> <<"z", "o", "n", "a", "_", "c", "o", "n", "f", "i", "r",
        "m">>,
   ad_yes |-> <<"a", "d", "_", "y", "e", "s">>,
   ad_change |-> <<"a", "d", "_", "c", "h", "a", "n", "g", "e">>,
   urgency_now |-> <<"u", "r", "g", "e", "n", "c", "y", "_", "n", "o", "w">>,
   urgency_later |-> <<"u", "r", "g", "e", "n", "c", "y", "_", "l", "a", "t",
        "e", "r">>,
   final_ack |-> <<"f", "i", "n", "a", "l", "_", "a", "c", "k">>,
   regex_confirm |-> <<"r", "e", "g", "e", "x", "_", "c", "o", "n", "f", "i",
        "r", "m">>,
   regex_change |-> <<"r", "e", "g", "e", "x", "_", "c", "h", "a", "n", "g",
        "e">>,
   zona_10 |-> <<"z", "o", "n", "a", "_", "1", "0">>,
   zona_26 |-> <<"z", "o", "n", "a", "_", "2", "6">>,
   srv_plomero |-> <<"s", "r", "v", "_", "p", "l", "o", "m", "e", "r", "o">>]
\* the prefixes of a technician's service choice
P_tech == <<"t", "e", "c", "h", "_">>
P_tech_srv == <<"t", "e", "c", "h", "_", "s", "r", "v", "_">>


\* ------------------------------------------------------------------------
\* POST /webhook: button replies
\* ------------------------------------------------------------------------

\* "URGENCY answers - SAVE + ROUTE" and the second half of "Regex confirm":
\* the lead is built from s1, persisted, routed, the final card is sent, the
\* session becomes DONE and the cooldown is armed. V3.3.1 neither scores nor
\* routes.
Completed(s1) ==
  [s1 EXCEPT !.state = "DONE",
             !.lastConfirmation =
                Some(FinalText(CityTitle(s1.city), s1.zone, s1.serviceId)),
             !.finalAcked = FALSE]
\* a completion that sends the final card and arms the cooldown before the
\* lead is persisted and routed
CompletionScript_cardFirst(s1, s2, version, adminPhone, dbOk, fsOk, q) ==
  LET lead == IF version = "V3.3.1" THEN BuildLead(s1) ELSE WithScore(BuildLead(s1))
  IN <<OpSessSet(s1),
       OpSend(USER, sendFinalInteractive(s2.lastConfirmation[1])), OpCoolSet>>
     \o saveLeadToSupabase(lead, version, adminPhone, dbOk, fsOk)
     \o (IF version = "V3.3.1" THEN <<>> ELSE pickSuppliers(lead, q))
     \o <<OpSessSet(s2)>>
CompletionScript(s1, s2, version, adminPhone, dbOk, fsOk, q) ==
  LET lead == IF version = "V3.3.1" THEN BuildLead(s1) ELSE WithScore(BuildLead(s1))
  IN <<OpSessSet(s1)>>
     \o saveLeadToSupabase(lead, version, adminPhone, dbOk, fsOk)
     \o (IF version = "V3.3.1" THEN <<>> ELSE pickSuppliers(lead, q))
     \o <<OpSend(USER, sendFinalInteractive(s2.lastConfirmation[1])),
          OpSessSet(s2), OpCoolSet>>

UrgencyAnswered(s, id) ==
  [s EXCEPT !.urgency = IF id = ID.urgency_now THEN "now" ELSE "later"]
UrgencyScript(s, id, version, adminPhone, dbOk, fsOk, q) ==
  CompletionScript(UrgencyAnswered(s, id), Completed(UrgencyAnswered(s, id)),
                   version, adminPhone, dbOk, fsOk, q)

RegexConfirmed(s) ==
  [s EXCEPT !.serviceId = s.pendingConfirm[1].serviceId,
            !.zone = s.pendingConfirm[1].zona,
            !.zoneConfirmed = TRUE,
            !.urgency = IF s.pendingConfirm[1].urgency = "Ahora" THEN "now" ELSE "later",
            !.started = TRUE, !.state = "MENU", !.finalAcked = FALSE]
RegexConfirmScript(s, adminPhone, dbOk, fsOk, q) ==
  IF \/ s.pendingConfirm = None
     \/ s.pendingConfirm[1].serviceId = NULL
     \/ s.pendingConfirm[1].zona = NoZone
    THEN <<OpSend(USER, sendText("faltan"))>>
    ELSE CompletionScript(RegexConfirmed(s),
                          [Completed(RegexConfirmed(s)) EXCEPT !.pendingConfirm = None],
                          "V3.3.2", adminPhone, dbOk, fsOk, q)

\* "Final ack"
FinalAckScript(s, coolHas) ==
  IF coolHas
    THEN IF s.finalAcked THEN <<>>
         ELSE <<OpSessSet([s EXCEPT !.finalAcked = TRUE]),
                OpSend(USER, sendText("confirmar"))>>
    ELSE PurgeScript

\* "technician - service selected": the id with the prefixes removed
StripPrefix(id, p) == IF startsWith(id, p) THEN SubSeq(id, Len(p) + 1, Len(id)) ELSE id
TechNorm(id) == StripPrefix(StripPrefix(id, P_tech_srv), P_tech)
TechServiceScript(s, id) ==
  <<OpSessSet([s EXCEPT !.techServiceId = ServiceOfChars(TechNorm(id))]),
    OpSend(USER, sendZonaGroupButtons),
    OpSend(USER, sendText("tech_zone"))>>

BtnStartYes(s) == [s EXCEPT !.started = TRUE, !.state = "MENU", !.finalAcked = FALSE]
BtnRole(s, role) == [s EXCEPT !.role = role, !.finalAcked = FALSE]
BtnZonaGroup(s) == [s EXCEPT !.finalAcked = FALSE]
BtnZonaChange(s) == [s EXCEPT !.state = "MENU", !.finalAcked = FALSE]
BtnZonaConfirm(s) ==
  [s EXCEPT !.zoneConfirmed = TRUE, !.state = "MENU", !.finalAcked = FALSE]
BtnAdYes(s) ==
  [s EXCEPT !.started = TRUE, !.state = "MENU", !.zoneConfirmed = TRUE,
            !.finalAcked = FALSE]
BtnAdChange(s) ==
  [s EXCEPT !.state = "MENU", !.serviceId = NULL, !.urgency = NULL,
            !.finalAcked = FALSE]
BtnRegexChange(s) == [s EXCEPT !.pendingConfirm = None]

\* the button branch, the urgency answers and regex_confirm excepted
ButtonScript(s, coolHas, id, version) ==
  IF id = ID.start_yes
    THEN <<OpSessSet(BtnStartYes(s)), OpSend(USER, sendRoleButtons)>>
  ELSE IF id = ID.start_no THEN <<OpSend(USER, sendText("cancelled"))>>
  ELSE IF id = ID.role_cliente
    THEN <<OpSessSet(BtnRole(s, "cliente")),
           OpSend(USER, IF s.adLockCity THEN sendZonaGroupButtons ELSE sendCityMenu)>>
  ELSE IF id = ID.role_tecnico
    THEN IF version = "V3.3.1" THEN <<OpSend(USER, sendText("tech_wip"))>>
         ELSE <<OpSessSet(BtnRole(s, "tecnico")), OpSend(USER, sendTechServiceList)>>
  ELSE IF version = "V3.3.2" /\ startsWith(id, P_tech) /\ HasServiceLabel(TechNorm(id))
    THEN TechServiceScript(s, id)
  ELSE IF id = ID.zona_group_1_10
    THEN <<OpSessSet(BtnZonaGroup(s)), OpSend(USER, sendZonaList(1, 10))>>
  ELSE IF id = ID.zona_group_11_20
    THEN <<OpSessSet(BtnZonaGroup(s)), OpSend(USER, sendZonaList(11, 20))>>
  ELSE IF id = ID.zona_group_21_25
    THEN <<OpSessSet(BtnZonaGroup(s)), OpSend(USER, sendZonaList(21, 25))>>
  ELSE IF id = ID.zona_change
    THEN <<OpSessSet(BtnZonaChange(s)), OpSend(USER, sendZonaGroupButtons)>>
  ELSE IF id = ID.zona_confirm
    THEN IF s.zone = NoZone THEN <<OpSend(USER, sendZonaGroupButtons)>>
         ELSE <<OpSessSet(BtnZonaConfirm(s)),
                OpSend(USER, sendServicesList(CityTitle(s.city), s.zone))>>
  ELSE IF id = ID.ad_yes
    THEN <<OpSessSet(BtnAdYes(s)), OpSend(USER, sendUrgencyQuestion)>>
  ELSE IF id = ID.ad_change
    THEN <<OpSessSet(BtnAdChange(s)), OpSend(USER, sendZonaGroupButtons)>>
  ELSE IF id = ID.final_ack THEN FinalAckScript(s, coolHas)
  ELSE IF version = "V3.3.2" /\ id = ID.regex_change
    THEN <<OpSessSet(BtnRegexChange(s)), OpSend(USER, sendRoleButtons)>>
  ELSE TailScript(s)

\* ------------------------------------------------------------------------
\* Text bodies the user sends
\* ------------------------------------------------------------------------

\* reset word; reset word padded and in upper case; nothing to parse; service,
\* zone and urgency in free text; service and zone only; an ad tag with zone,
\* service (percent-encoded), language and campaign; a tag whose zone is out
\* of range; a tag whose service is unknown; a service alone; a zone alone;
\* an urgency alone; a tag with a malformed percent-escape
B ==
  [reset |-> <<"o", "g", "a">>,
   reset_padded |-> <<" ", "O", "G", "A", " ">>,
   hola |-> <<"h", "o", "l", "a">>,
   full |-> <<"N", "e", "c", "e", "s", "i", "t", "o", " ", "u", "n", " ",
        "p", "l", "o", "m", "e", "r", "o", " ", "e", "n", " ", "z", "o", "n",
        "a", " ", "1", "0", " ", "u", "r", "g", "e", "n", "t", "e">>,
   no_urgency |-> <<"p", "l", "o", "m", "e", "r", "o", " ", "z", "o", "n", "a",
        " ", "1", "0">>,
   ad_full |-> <<"H", "o", "l", "a", " ", "#", "a", "d", " ", "z", "o", "n",
        "e", "=", "1", "0", "&", "s", "e", "r", "v", "i", "c", "e", "=", "p",
        "l", "o", "m", "%", "6", "5", "r", "o", "&", "l", "a", "n", "g", "=",
        "e", "n", "&", "c", "i", "d", "=", "1", "2", "3">>,
   ad_badzone |-> <<"#", "a", "d", " ", "z", "o", "n", "e", "=", "9", "9",
        "&", "s", "e", "r", "v", "i", "c", "e", "=", "p", "l", "o", "m", "%",
        "6", "5", "r", "o">>,
   ad_noservice |-> <<"#", "a", "d", " ", "z", "o", "n", "a", "=", "1", "0",
        "&", "s", "=", "p", "i", "n", "t", "o", "r">>,
   only_service |-> <<"p", "l", "o", "m", "e", "r", "o">>,
   only_zone |-> <<"z", "o", "n", "a", " ", "1", "0">>,
   only_urgency |-> <<"u", "r", "g", "e", "n", "t", "e">>,
   ad_malformed |-> <<"#", "a", "d", " ", "z", "o", "n", "e", "=", "1", "0",
        "&", "s", "e", "r", "v", "i", "c", "e", "=", "%", "z", "z">>]

\* ------------------------------------------------------------------------
\* Running a handler
\* ------------------------------------------------------------------------

\* at most this many rows come back from the technicians query
MaxTechs == 4
\* the count of acknowledgements in one cooldown window saturates here
MaxAcks == 2

FinalAckedOf(se) == IF se = None THEN FALSE ELSE se[1].finalAcked
\* finalAcked of the stored session goes from false to true while the
\* cooldown marker is present
AckStep(st, s) ==
  IF st.cool /\ ~FinalAckedOf(st.sess) /\ s.finalAcked
    THEN Min(MaxAcks, st.acks + 1) ELSE st.acks

\* "return done()": the handler answers 200
Done(st) == [st EXCEPT !.res = @ + 1]
\* a catch of the route that answers nothing
Catch_silent(st) == st
\* the catch of the route: the error is logged and the handler answers 200
Catch(st) == [st EXCEPT !.res = @ + 1]

StoreOps == {"sessSet", "sessDel", "coolSet", "coolDel"}

\* The effect of a script on the stores, in program order. steps is the trace
\* of the operations the handler reached. fails holds the positions in that
\* trace of the operations that reject: a send (sendPayload), or a store call
\* when the store is Redis. A rejection the caller does not catch ends the
\* handler in the catch of the route. With the in-memory store the session
\* object the handler mutates is the stored one, so an assignment is visible
\* at once; with Redis only sessSet writes.
RECURSIVE Exec(_, _, _, _)
Exec(script, st, fails, useMemory) ==
  IF script = <<>> THEN Done(st)
  ELSE LET o == Head(script)
           rest == Tail(script)
           st0 == [st EXCEPT !.steps = Append(@, o)]
           failed == Len(st0.steps) \in fails
       IN CASE o.op \in StoreOps /\ failed /\ ~useMemory -> Catch(st0)
            [] o.op = "sessSet" ->
                 Exec(rest, [st0 EXCEPT !.sess = Some(o.s), !.acks = AckStep(st, o.s)],
                      fails, useMemory)
            [] o.op = "assign" ->
                 Exec(rest,
                      IF useMemory /\ st.sess # None
                        THEN [st0 EXCEPT !.sess = Some(o.s), !.acks = AckStep(st, o.s)]
                        ELSE st0,
                      fails, useMemory)
            [] o.op = "sessDel" ->
                 Exec(rest, [st0 EXCEPT !.sess = None, !.lead = FALSE], fails, useMemory)
            [] o.op = "coolSet" ->
                 Exec(rest, [st0 EXCEPT !.cool = TRUE, !.acks = 0], fails, useMemory)
            [] o.op = "coolDel" ->
                 Exec(rest, [st0 EXCEPT !.cool = FALSE, !.acks = 0], fails, useMemory)
            [] o.op = "insertLead" ->
                 Exec(rest,
                      [st0 EXCEPT !.leads = Append(@, [lead |-> o.lead, saved |-> o.saved,
                                                      backedUp |-> o.backedUp]),
                                 !.lead = TRUE],
                      fails, useMemory)
            [] o.op = "send" ->
                 LET st1 == [st0 EXCEPT !.out = Append(@, [to |-> o.to, m |-> o.m,
                                                           ok |-> ~failed])]
                 IN IF ~failed \/ o.caught THEN Exec(rest, st1, fails, useMemory)
                    ELSE Catch(st1)
            [] OTHER -> Catch(st0)

\* ------------------------------------------------------------------------
\* Inputs
\* ------------------------------------------------------------------------

\* version, session backend, ADMIN_PHONE configured (V3.3.2 only)
Deployments ==
  {[version |-> "V3.3.2", useMemory |-> TRUE, adminPhone |-> TRUE],
   [version |-> "V3.3.2", useMemory |-> FALSE, adminPhone |-> FALSE],
   [version |-> "V3.3.1", useMemory |-> FALSE, adminPhone |-> FALSE]}

Bodies ==
  {B.reset, B.reset_padded, B.hola, B.full, B.no_urgency, B.ad_full,
   B.ad_badzone, B.ad_noservice, B.ad_malformed}
\* texts that give one field each
WordBodies == {B.only_service, B.only_zone, B.only_urgency}
ListIds == {CITIES[1].chars, ID.zona_10, ID.zona_26, ID.srv_plomero}
CompletionIds == {ID.urgency_now, ID.urgency_later}
ButtonIds ==
  {ID.start_yes, ID.start_no, ID.role_cliente, ID.zona_group_1_10,
   ID.zona_group_21_25, ID.zona_change, ID.zona_confirm, ID.ad_yes,
   ID.ad_change, ID.final_ack, ID.regex_confirm, ID.regex_change,
   ID.srv_plomero}

\* the rows of the technicians table for a service, as the query returns them
TechZona(i) ==
  CASE i = 1 -> 11 [] i = 2 -> 10 [] i = 3 -> 9 [] i = 4 -> 14 [] OTHER -> 3
Tech(i) == [id |-> i, phone |-> "tech", zona |-> TechZona(i)]
\* the answers of the technicians query: an error, no row, MaxTechs rows;
\* V3.3.1 does not query
TechQueries(version) ==
  IF version = "V3.3.1" THEN {[error |-> FALSE, rows |-> <<>>]}
  ELSE {[error |-> TRUE, rows |-> <<>>], [error |-> FALSE, rows |-> <<>>],
        [error |-> FALSE, rows |-> [i \in 1..MaxTechs |-> Tech(i)]]}
\* the outcomes of persisting a lead: inserted; insert failed and backed up;
\* insert failed and backup failed. V3.3.1 has no backup.
StoreOutcomes(version) ==
  {o \in [dbOk : BOOLEAN, fsOk : BOOLEAN] :
     /\ o.dbOk => ~o.fsOk
     /\ version = "V3.3.1" => ~o.fsOk}

\* what the handler computes from a text body, once per body
TextInputs ==
  [b \in Bodies \cup WordBodies |-> [body |-> toLowerCase(trim(b)),
                     ad |-> parseAdParams(b),
                     parts |-> parseFreeTextToLeadParts(b)]]

\* ------------------------------------------------------------------------
\* The state machine: one action per kind of inbound event
\* ------------------------------------------------------------------------

\* "ensure session": the session the handler works on, and the write that
\* creates it for an unseen user
Cur == IF sess = None THEN FreshSession ELSE sess[1]
Ensure == IF sess = None THEN <<OpSessSet(FreshSession)>> ELSE <<>>

\* no request is being handled
NoEvent == [type |-> "none"]
Idle == ev = NoEvent

\* no call is being looked at
NoCalc == [fn |-> "none"]
\* nothing was issued yet: no job waits in the queue or is with the worker,
\* the users have received nothing, no job was given up
NoWa ==
  [waiting |-> <<>>, active |-> {}, inbox |-> <<>>, dropped |-> {}, events |-> 0]

\* the clock stands at 0 and no timer of the in-memory stores is pending
NoTm == [now |-> 0, sessAt |-> None, coolAt |-> None, sessTimers |-> {}, coolTimers |-> {}]

\* no two handlers are running side by side
NoRace == [h |-> [i \in 1..2 |-> [phase |-> "idle"]], lastSet |-> None]

Init ==
  /\ env \in Deployments
  /\ sess = None
  /\ cool = FALSE
  /\ ev = NoEvent
  /\ out = <<>>
  /\ leads = <<>>
  /\ steps = <<>>
  /\ leadSinceFresh = FALSE
  /\ textSinceFresh = FALSE
  /\ acks = 0
  /\ calc = NoCalc
  /\ wa = NoWa
  /\ tm = NoTm
  /\ hs = NoRace

\* what held when the event arrived
Pre ==
  [sess |-> sess, cool |-> cool, lead |-> leadSinceFresh, text |-> textSinceFresh,
   acks |-> acks]

\* the handler runs script on the stores, the operations at the positions in
\* fails rejecting (position 0: the sessGet of "ensure session", with Redis);
\* type and id name the event
Step(type, id, script, fails) ==
  /\ Idle
  /\ \E st \in {Exec(IF 0 \in fails /\ ~env.useMemory THEN <<OpThrow>>
                     ELSE Ensure \o script,
                     [sess |-> sess, cool |-> cool, out |-> <<>>, leads |-> <<>>,
                      steps |-> <<>>, lead |-> leadSinceFresh, acks |-> acks,
                      res |-> 0],
                     fails, env.useMemory)} :
     /\ sess' = st.sess
     /\ cool' = st.cool
     /\ out' = st.out
     /\ leads' = st.leads
     /\ steps' = st.steps
     /\ leadSinceFresh' = st.lead
     /\ textSinceFresh' =
          IF \E i \in 1..Len(st.steps) : st.steps[i].op = "sessDel" THEN FALSE
          ELSE textSinceFresh \/ type = "text"
     /\ acks' = st.acks
     /\ ev' = [type |-> type, id |-> id, pre |-> Pre, fails |-> fails,
               res |-> st.res]
     /\ UNCHANGED <<env, calc, tm, hs>>
\* the same, the delivery of the messages left aside
Run(type, id, script, fails) == Step(type, id, script, fails) /\ UNCHANGED wa
\* nothing rejects
Handle(type, id, script) == Run(type, id, script, {})

TextMessage ==
  \E b \in Bodies :
    Handle("text", b,
           TextScript(Cur, cool, TextInputs[b].body, TextInputs[b].ad,
                      TextInputs[b].parts, env.version))

ListReply ==
  \E id \in ListIds :
    \E techOk \in IF env.version = "V3.3.2" /\ Cur.techServiceId # NULL
                     THEN BOOLEAN ELSE {TRUE} :
      Handle("list_reply", id, ListScript(Cur, id, env.version, techOk))

ButtonReply ==
  \E id \in ButtonIds :
    /\ ~(env.version = "V3.3.2" /\ id = ID.regex_confirm)
    /\ Handle("button_reply", id, ButtonScript(Cur, cool, id, env.version))

UrgencyAnswer ==
  \E id \in CompletionIds, o \in StoreOutcomes(env.version),
     q \in TechQueries(env.version) :
    Handle("button_reply", id,
           UrgencyScript(Cur, id, env.version, env.adminPhone, o.dbOk, o.fsOk, q))

RegexConfirm ==
  /\ env.version = "V3.3.2"
  /\ \E o \in StoreOutcomes(env.version), q \in TechQueries(env.version) :
       Handle("button_reply", ID.regex_confirm,
              RegexConfirmScript(Cur, env.adminPhone, o.dbOk, o.fsOk, q))

\* any other message type (image, audio, location, ...): no branch matches
OtherMessage == Handle("other", <<>>, TailScript(Cur))

\* res.sendStatus(200): the request is over, on every path of the handler
Respond ==
  /\ ~Idle
  /\ ev' = NoEvent
  /\ out' = <<>>
  /\ leads' = <<>>
  /\ steps' = <<>>
  /\ UNCHANGED <<env, sess, cool, leadSinceFresh, textSinceFresh, acks, calc, wa, tm,
                 hs>>

\* the session entry expires (Redis EX, or a timer of the in-memory store)
SessExpire ==
  /\ Idle
  /\ sess # None
  /\ sess' = None
  /\ leadSinceFresh' = FALSE
  /\ textSinceFresh' = FALSE
  /\ UNCHANGED <<env, cool, acks, ev, out, leads, steps, calc, wa, tm, hs>>

\* the cooldown marker expires
CoolExpire ==
  /\ Idle
  /\ cool
  /\ cool' = FALSE
  /\ acks' = 0
  /\ UNCHANGED <<env, sess, leadSinceFresh, textSinceFresh, ev, out, leads, steps,
               calc, wa, tm, hs>>

Next ==
  \/ TextMessage
  \/ ListReply
  \/ ButtonReply
  \/ UrgencyAnswer
  \/ RegexConfirm
  \/ OtherMessage
  \/ Respond
  \/ SessExpire
  \/ CoolExpire

Spec == Init /\ [][Next]_vars

\* ------------------------------------------------------------------------
\* The same handlers with sends and store calls that reject
\* ------------------------------------------------------------------------

\* at most this many operations of one request reject
MaxFaults == 2

\* the positions of a script whose operation can reject: sendPayload (axios
\* or the queue), and the Redis calls of the store
Fallible(script, useMemory) ==
  {i \in 1..Len(script) :
     \/ script[i].op = "send"
     \/ ~useMemory /\ script[i].op \in StoreOps}
  \cup (IF useMemory THEN {} ELSE {0})
\* the sets of at most k positions of F
RECURSIVE UpTo(_, _)
UpTo(F, k) ==
  IF k = 0 THEN {{}}
  ELSE LET fs == UpTo(F, k - 1) IN fs \cup {f \cup {i} : f \in fs, i \in F}
FaultSets(script, useMemory) == UpTo(Fallible(script, useMemory), MaxFaults)

HandleF(type, id, script) ==
  /\ Idle
  /\ \E sc \in {script} :
       \E fails \in FaultSets(Ensure \o sc, env.useMemory) : Run(type, id, sc, fails)

TextMessageF ==
  \E b \in {B.reset, B.hola, B.full, B.ad_full, B.ad_malformed} :
    HandleF("text", b,
            TextScript(Cur, cool, TextInputs[b].body, TextInputs[b].ad,
                       TextInputs[b].parts, env.version))

ListReplyF ==
  \E id \in {ID.srv_plomero} :
    HandleF("list_reply", id, ListScript(Cur, id, env.version, TRUE))

ButtonReplyF ==
  \E id \in {ID.ad_yes, ID.final_ack} :
    HandleF("button_reply", id, ButtonScript(Cur, cool, id, env.version))

UrgencyAnswerF ==
  \E o \in StoreOutcomes(env.version), q \in TechQueries(env.version) :
    HandleF("button_reply", ID.urgency_now,
            UrgencyScript(Cur, ID.urgency_now, env.version, env.adminPhone,
                          o.dbOk, o.fsOk, q))

RegexConfirmF ==
  /\ env.version = "V3.3.2"
  /\ \E o \in StoreOutcomes(env.version), q \in TechQueries(env.version) :
       HandleF("button_reply", ID.regex_confirm,
               RegexConfirmScript(Cur, env.adminPhone, o.dbOk, o.fsOk, q))

OtherMessageF == HandleF("other", <<>>, TailScript(Cur))

NextF ==
  \/ TextMessageF
  \/ ListReplyF
  \/ ButtonReplyF
  \/ UrgencyAnswerF
  \/ RegexConfirmF
  \/ OtherMessageF
  \/ Respond
  \/ SessExpire
  \/ CoolExpire

SpecF == Init /\ [][NextF]_vars

\* ------------------------------------------------------------------------
\* scoreLead and pickSuppliers called on their own
\* ------------------------------------------------------------------------

\* at most this many rows come back from the technicians query
MaxRows == 5
\* the zones of the technicians of the table
RouteZonas == {9, 10, 11, 14}
\* the answers of the technicians query: rows with distinct ids, in query order
RowLists ==
  UNION {{[i \in 1..n |-> [id |-> i, phone |-> "tech", zona |-> z[i]]] :
            z \in [1..n -> RouteZonas]} : n \in 0..MaxRows}
\* the lead the completion builds for a session with these fields
LeadOf(serviceId, zone, urgency) ==
  BuildLead([FreshSession EXCEPT !.serviceId = serviceId, !.zone = zone,
                                 !.urgency = urgency])
\* "return top.map(t=>t.id)"
PickedIds(notifications) ==
  [i \in 1..Len(notifications) |-> notifications[i].m.p[2]]

PickSuppliersCall ==
  /\ calc = NoCalc
  /\ \E rows \in RowLists, error \in BOOLEAN,
        serviceId \in {"srv_plomero", NULL}, zone \in {10, NoZone} :
       LET lead == WithScore(LeadOf(serviceId, zone, "now"))
           q == [error |-> error, rows |-> IF error THEN <<>> ELSE rows]
       IN \E sc \in {pickSuppliers(lead, q)} :
            \E fails \in FaultSets(sc, TRUE) :
              \E st \in {Exec(sc, [sess |-> sess, cool |-> cool, out |-> <<>>,
                                    leads |-> <<>>, steps |-> <<>>, lead |-> FALSE,
                                    acks |-> 0, res |-> 0], fails, TRUE)} :
                calc' = [fn |-> "pickSuppliers", lead |-> lead, q |-> q,
                         ids |-> PickedIds(sc), fails |-> fails, sent |-> st.out]
  /\ UNCHANGED <<env, sess, cool, ev, out, leads, steps, leadSinceFresh,
                 textSinceFresh, acks, wa, tm, hs>>

ScoreLeadCall ==
  /\ calc = NoCalc
  /\ \E urgency \in {"now", "later"}, serviceId \in ServiceIds \cup {NULL},
        zone \in 0..25 :
       LET lead == LeadOf(serviceId, zone, urgency)
       IN calc' = [fn |-> "scoreLead", lead |-> lead, score |-> scoreLead(lead)]
  /\ UNCHANGED <<env, sess, cool, ev, out, leads, steps, leadSinceFresh,
                 textSinceFresh, acks, wa, tm, hs>>

\* the call returns
CallReturn ==
  /\ calc # NoCalc
  /\ calc' = NoCalc
  /\ UNCHANGED <<env, sess, cool, ev, out, leads, steps, leadSinceFresh,
                    textSinceFresh, acks, wa, tm, hs>>

NextFn == PickSuppliersCall \/ ScoreLeadCall \/ CallReturn

SpecFn == Init /\ [][NextFn]_vars

\* ------------------------------------------------------------------------
\* Delivery of the messages: direct, or through the BullMQ queue
\* ------------------------------------------------------------------------

\* at most this many events are handled
MaxEvents == 2
\* at most this many messages are issued in all
MaxJobs == 3
\* the worker of the queue runs this many jobs at once
Concurrency == 5
\* a job is tried this many times
Attempts == 3

\* sendPayload adds to the queue when waQueue exists (REDIS_URL set), and
\* posts to the Graph API itself otherwise; V3.3.1 always posts itself
Queued == env.version = "V3.3.2" /\ ~env.useMemory

\* the messages the request issued, as jobs: event number, rank in the event
JobsOf(sent, e) ==
  [k \in 1..Len(sent) |->
     [e |-> e, k |-> k, to |-> sent[k].to, m |-> sent[k].m, attempt |-> 1]]

\* the jobs of the queue that are not settled: waiting, or with the worker
InFlight == {wa.waiting[i] : i \in 1..Len(wa.waiting)} \cup wa.active

\* what reaches the user of a job: the message, with the event that issued it
\* and its rank in that event
Received(job) == [e |-> job.e, k |-> job.k, to |-> job.to, m |-> job.m]

\* the messages issued so far
Issued ==
  Len(wa.waiting) + Cardinality(wa.active) + Len(wa.inbox) + Cardinality(wa.dropped)

\* sendPayload: a direct post is awaited, so the message is with WhatsApp when
\* the next one is issued; a queued one only waits in the queue
HandleQ(type, id, script) ==
  /\ wa.events < MaxEvents
  /\ Step(type, id, script, {})
  /\ Issued + Len(out') <= MaxJobs
  /\ wa' = IF Queued
             THEN [wa EXCEPT !.waiting = @ \o JobsOf(out', wa.events + 1),
                             !.events = @ + 1]
             ELSE [wa EXCEPT !.inbox =
                               @ \o [k \in 1..Len(out') |->
                                       Received(JobsOf(out', wa.events + 1)[k])],
                             !.events = @ + 1]

TextMessageQ ==
  \E b \in {B.hola, B.ad_full} :
    HandleQ("text", b,
            TextScript(Cur, cool, TextInputs[b].body, TextInputs[b].ad,
                       TextInputs[b].parts, env.version))

ListReplyQ ==
  \E id \in {ID.srv_plomero, ID.zona_10} :
    HandleQ("list_reply", id, ListScript(Cur, id, env.version, TRUE))

\* a completion of the user of an ad, one technician of the service in the
\* table: the technician is notified, then the user is sent the final card
UrgencyAnswerQ ==
  \E q \in {[error |-> FALSE, rows |-> <<Tech(2)>>]} :
    HandleQ("button_reply", ID.urgency_now,
            UrgencyScript(Cur, ID.urgency_now, env.version, env.adminPhone,
                          TRUE, FALSE, q))

\* the worker takes the next waiting job while it runs fewer than Concurrency
WorkerTake ==
  /\ wa.waiting # <<>>
  /\ Cardinality(wa.active) < Concurrency
  /\ wa' = [wa EXCEPT !.waiting = Tail(@), !.active = @ \cup {Head(wa.waiting)}]
  /\ UNCHANGED <<env, sess, cool, ev, out, leads, steps, leadSinceFresh,
                 textSinceFresh, acks, calc, tm, hs>>

\* the post of a running job succeeds: the message reaches its user
WorkerDone ==
  \E job \in wa.active :
    /\ wa' = [wa EXCEPT !.active = @ \ {job}, !.inbox = Append(@, Received(job))]
    /\ UNCHANGED <<env, sess, cool, ev, out, leads, steps, leadSinceFresh,
                 textSinceFresh, acks, calc, tm, hs>>

\* a worker that tries a failed job again however often it has failed
WorkerRetry_noLimit ==
  \E job \in wa.active :
    /\ wa' = [wa EXCEPT !.active = @ \ {job},
                        !.waiting = Append(@, [job EXCEPT !.attempt = @ + 1])]
    /\ UNCHANGED <<env, sess, cool, ev, out, leads, steps, leadSinceFresh,
                 textSinceFresh, acks, calc, tm, hs>>
\* the post of a running job fails: the job waits again after its backoff, or
\* is given up after Attempts tries
WorkerRetry ==
  \E job \in wa.active :
    /\ wa' = IF job.attempt < Attempts
               THEN [wa EXCEPT !.active = @ \ {job},
                               !.waiting = Append(@, [job EXCEPT !.attempt = @ + 1])]
               ELSE [wa EXCEPT !.active = @ \ {job}, !.dropped = @ \cup {job}]
    /\ UNCHANGED <<env, sess, cool, ev, out, leads, steps, leadSinceFresh,
                 textSinceFresh, acks, calc, tm, hs>>

NextQ ==
  \/ TextMessageQ
  \/ ListReplyQ
  \/ UrgencyAnswerQ
  \/ Respond
  \/ WorkerTake
  \/ WorkerDone
  \/ WorkerRetry

SpecQ == Init /\ [][NextQ]_vars

\* the worker runs as long as the process does (autorun): a waiting job is
\* taken when a slot is free, and the post of a running job ends, resolved or
\* rejected
SpecQFair ==
  /\ SpecQ
  /\ WF_vars(WorkerTake)
  /\ WF_vars(WorkerDone \/ WorkerRetry)

\* ------------------------------------------------------------------------
\* Properties
\* ------------------------------------------------------------------------

\* a request has been handled and its effects are in the stores
Handled == ~Idle
\* the event is a text, a list reply or a button reply
Inbound == ~Idle /\ ev.type \in {"text", "list_reply", "button_reply"}
\* the event is the reset word
IsReset == ~Idle /\ ev.type = "text" /\ TextInputs[ev.id].body = RESET_MAGIC
\* the session the handler started from
PreS == IF ev.pre.sess = None THEN FreshSession ELSE ev.pre.sess[1]
PreDone == ev.pre.sess # None /\ ev.pre.sess[1].state = "DONE"
StartCardOnly == out = <<[to |-> USER, m |-> sendStartConfirm, ok |-> TRUE]>>

\* C1: in every stored session, zoneConfirmed = true implies zone is not null.
C1_ZoneConfirmedHasZone ==
  sess # None => (sess[1].zoneConfirmed => sess[1].zone # NoZone)

\* C2: in every stored session, urgency not null implies serviceId not null; an
\* urgency button received while serviceId is null does not set urgency.
C2_UrgencyHasService ==
  sess # None => (sess[1].urgency # NULL => sess[1].serviceId # NULL)

\* C3: in every stored session, serviceId not null implies zoneConfirmed = true.
C3_ServiceHasConfirmedZone ==
  sess # None => (sess[1].serviceId # NULL => sess[1].zoneConfirmed)
\* an exact-zone selection has just cleared the service of a session that had one
C3_Witness ==
  /\ Handled /\ ev.type = "list_reply" /\ ev.id = ID.zona_10
  /\ PreS.serviceId # NULL /\ PreS.zoneConfirmed
  /\ sess # None /\ sess[1].serviceId = NULL /\ ~sess[1].zoneConfirmed

\* C4: in every stored session, state = DONE implies urgency is not null; a
\* service list reply accepted while DONE does not leave the state DONE.
C4_DoneHasUrgency ==
  sess # None => (sess[1].state = "DONE" => sess[1].urgency # NULL)

\* C5: a request emits at most one lead; no lead is emitted when one was
\* already emitted since the session was created (reset, purge), nor while the
\* session is DONE and the cooldown marker is present.
C5_OneLeadPerFlow ==
  Handled =>
    /\ Len(leads) <= 1
    /\ ev.pre.lead => leads = <<>>
    /\ (PreDone /\ ev.pre.cool) => leads = <<>>

\* C6: while the session is DONE and the cooldown marker is present, a
\* non-reset text, list reply or button reply leaves every session field but
\* finalAcked as it was.
C6_DoneReadOnly ==
  (Inbound /\ ~IsReset /\ PreDone /\ ev.pre.cool) =>
    /\ sess # None
    /\ [sess[1] EXCEPT !.finalAcked = FALSE] = [PreS EXCEPT !.finalAcked = FALSE]

\* C7: in one cooldown window finalAcked goes from false to true at most once,
\* and a non-reset event handled after that change, in the same window, sends
\* nothing.
C7_AckOncePerWindow ==
  /\ acks <= 1
  /\ (Inbound /\ ~IsReset /\ ev.pre.cool /\ ev.pre.acks >= 1) => out = <<>>

\* C8: when the session is DONE and the cooldown marker is absent, the next
\* text, list reply or button reply stores the fresh session, sends the start
\* card and emits no lead.
C8_ExpiredDonePurged ==
  (Inbound /\ PreDone /\ ~ev.pre.cool) =>
    /\ sess = Some(FreshSession)
    /\ StartCardOnly
    /\ leads = <<>>

\* C9: a text whose trimmed, lower-cased body is the reset word, handled from
\* any session: afterwards the cooldown marker is absent, the stored session
\* is the fresh one, the start card is the one message sent and no lead was
\* emitted.
C9_ResetFromAnyState ==
  IsReset =>
    /\ ~cool
    /\ sess = Some(FreshSession)
    /\ StartCardOnly
    /\ leads = <<>>
\* the padded, upper-case reset word has reset a completed session in its
\* cooldown that came from an ad and had replayed its confirmation
C9_Witness ==
  /\ IsReset /\ ev.id = B.reset_padded
  /\ PreDone /\ ev.pre.cool /\ PreS.source = "ad" /\ PreS.finalAcked
  /\ sess = Some(FreshSession) /\ ~cool

\* C10: for a non-reset text on a session with started = false, the ad prefill
\* is applied (city, zone and service of the tag stored, zoneConfirmed,
\* adLockCity and started true, source "ad", urgency null, ad-confirm card
\* sent) exactly when the parser returns a city, a zone and a service. When it
\* does not, the tag changes none of city, zone, zoneConfirmed, serviceId,
\* adLockCity, source, lang, campaign_id: they are as before, or, when the
\* session was DONE with its cooldown expired, the session is purged as for
\* any text.
AdFields(s) ==
  <<s.city, s.zone, s.zoneConfirmed, s.serviceId, s.adLockCity, s.source,
    s.lang, s.campaign_id>>
C10_AdPrefillIff ==
  (Handled /\ ev.type = "text" /\ ~IsReset /\ ~PreS.started) =>
    LET ad == TextInputs[ev.id].ad
        resolved == /\ ad.r = "ad" /\ ad.city # NULL
                    /\ ad.zone # NoZone /\ ad.serviceId # NULL
        cardSent == \E i \in 1..Len(out) : out[i].m.kind = "AdConfirm"
    IN /\ sess # None
       /\ resolved =>
            /\ AdFields(sess[1]) = <<ad.city, ad.zone, TRUE, ad.serviceId, TRUE, "ad",
                                     ad.lang, ad.campaign_id>>
            /\ sess[1].started /\ sess[1].urgency = NULL
            /\ out = <<[to |-> USER, ok |-> TRUE,
                        m |-> sendAdConfirm(CityTitle(ad.city), ad.zone, ad.serviceId)]>>
       /\ ~resolved =>
            /\ ~cardSent
            /\ \/ AdFields(sess[1]) = AdFields(PreS)
               \/ PreDone /\ ~ev.pre.cool /\ sess = Some(FreshSession)
\* a tag without a known service was handled on an unstarted session that had
\* a confirmed zone and a service: nothing of the tag was stored
C10_Witness ==
  /\ Handled /\ ev.type = "text" /\ ev.id = B.ad_noservice
  /\ ~PreS.started /\ PreS.zone # NoZone /\ PreS.serviceId # NULL
  /\ ~PreDone
  /\ sess # None /\ AdFields(sess[1]) = AdFields(PreS) /\ sess[1].source = NULL

ZonaGroupOnly == out = <<[to |-> USER, m |-> sendZonaGroupButtons, ok |-> TRUE]>>
\* C11: once a session has adLockCity = true its city stays as it is until the
\* session is reset or purged (the fresh session is stored); a city list reply
\* handled while adLockCity = true leaves the whole session as it was and the
\* zone-group prompt is the one message sent.
C11_AdLockKeepsCity ==
  (Handled /\ ev.pre.sess # None /\ PreS.adLockCity) =>
    /\ \/ sess = Some(FreshSession)
       \/ sess # None /\ sess[1].adLockCity /\ sess[1].city = PreS.city
    /\ (ev.type = "list_reply" /\ IsCityId(ev.id)) =>
         sess = ev.pre.sess /\ ZonaGroupOnly
\* a city was picked from the list on an ad-locked session that had a zone and
\* a service: the session kept them and the zone-group prompt was sent
C11_Witness ==
  /\ Handled /\ ev.type = "list_reply" /\ IsCityId(ev.id)
  /\ ev.pre.sess # None /\ PreS.adLockCity /\ PreS.city # NULL
  /\ PreS.zone # NoZone /\ PreS.serviceId # NULL
  /\ sess = ev.pre.sess /\ ZonaGroupOnly

IsCompletion ==
  /\ Handled /\ ev.type = "button_reply"
  /\ ev.id \in {ID.urgency_now, ID.urgency_later, ID.regex_confirm}
  /\ leads # <<>>
AllSucceeded ==
  /\ \A i \in 1..Len(leads) : leads[i].saved
  /\ \A i \in 1..Len(out) : out[i].ok
\* the operations after "ensure session"
Body == IF ev.pre.sess = None THEN Tail(steps) ELSE steps
\* C12: V3.3.2, an urgency answer or a regex_confirm that completes, the
\* insert and every send succeeding. The operations of the handler are, in
\* this order: the session stored, the lead built from that session with its
\* score and persisted, the suppliers notified, the final card sent to the
\* user, the session stored with state DONE, lastConfirmation the text of
\* that card and finalAcked false, the cooldown marker armed; afterwards the
\* marker is present and that session is the stored one.
C12_CompletionOrder ==
  (IsCompletion /\ env.version = "V3.3.2" /\ AllSucceeded) =>
    LET n == Len(Body)
    IN /\ n >= 5
       /\ Body[1].op = "sessSet"
       /\ Body[2] = OpInsertLead(WithScore(BuildLead(Body[1].s)), TRUE, FALSE)
       /\ \A i \in 3..(n - 3) :
            /\ Body[i].op = "send" /\ Body[i].m.kind = "LeadNotify"
            /\ Body[i].to # USER
       /\ Body[n - 2].op = "send" /\ Body[n - 2].to = USER
       /\ Body[n - 2].m.kind = "Final"
       /\ Body[n - 1].op = "sessSet"
       /\ Body[n - 1].s.state = "DONE" /\ ~Body[n - 1].s.finalAcked
       /\ Body[n - 1].s.lastConfirmation = Some(Body[n - 2].m.p[1])
       /\ Body[n] = OpCoolSet
       /\ cool /\ sess = Some(Body[n - 1].s)
\* urgency_now completed a started ad session: the lead was inserted, three
\* suppliers were notified, then the final card went out
C12_Witness ==
  /\ IsCompletion /\ env.version = "V3.3.2" /\ AllSucceeded
  /\ ev.id = ID.urgency_now /\ PreS.started /\ PreS.serviceId # NULL
  /\ Len(out) = 4 /\ out[4].m.kind = "Final"
  /\ cool /\ sess # None /\ sess[1].state = "DONE"

\* the positions in steps of the sends of a kind of message
SendsOf(kind) ==
  {i \in 1..Len(steps) : steps[i].op = "send" /\ steps[i].m.kind = kind}
\* the user was sent the final card, the session is DONE and the cooldown
\* marker was armed last
CompletedForUser ==
  /\ \E i \in 1..Len(out) :
       out[i].to = USER /\ out[i].m.kind = "Final" /\ out[i].ok
  /\ sess # None /\ sess[1].state = "DONE"
  /\ cool /\ steps[Len(steps)] = OpCoolSet

\* C13: a completion whose lead insert failed, nothing else rejecting but
\* possibly the admin alert: the user is sent the final card, the session
\* becomes DONE and the cooldown marker is armed, with and without an admin
\* contact, whether the backup write succeeded or not.
C13_InsertFailureStillCompletes ==
  (IsCompletion /\ ~leads[1].saved /\ ev.fails \subseteq SendsOf("AdminAlert")) =>
    CompletedForUser

\* C14: saveLeadToSupabase returns to its caller whatever fails in it: the
\* handler never ends inside it, so an operation of the caller follows the
\* insert and the admin alert; what it reports is whether the insert
\* succeeded.
C14_SaveLeadNeverThrows ==
  (IsCompletion /\ ev.fails \subseteq SendsOf("AdminAlert")) =>
    LET i == CHOOSE k \in 1..Len(steps) : steps[k].op = "insertLead"
        last == IF SendsOf("AdminAlert") = {} THEN i ELSE i + 1
    IN /\ Len(steps) > last
       /\ leads[1].saved = steps[i].saved
       /\ leads[1].saved => SendsOf("AdminAlert") = {}

C15_AckExactlyOnce == Handled => ev.res = 1
\* with Redis, a completion sent the final card and the write of the DONE
\* session was rejected: the event was answered once
C15_Witness ==
  /\ IsCompletion /\ ~env.useMemory /\ ev.res = 1
  /\ \E i \in 1..Len(out) : out[i].m.kind = "Final" /\ out[i].ok
  /\ Len(steps) \in ev.fails /\ steps[Len(steps)].op = "sessSet"
  /\ steps[Len(steps)].s.state = "DONE"
  /\ sess # None /\ sess[1].state # "DONE" /\ ~cool

\* C16: every send succeeding, a non-reset text handled for a session whose
\* state is not DONE is answered by at least one message to the user.
C16_TextAlwaysAnswered ==
  (Handled /\ ev.type = "text" /\ ~IsReset /\ ~PreDone) =>
    \E i \in 1..Len(out) : out[i].to = USER /\ out[i].ok

Routed ==
  /\ calc.fn = "pickSuppliers" /\ ~calc.q.error
  /\ calc.lead.service # <<>>
RankOf(row) ==
  IF row.zona = calc.lead.zona THEN 0
  ELSE IF Abs(row.zona - calc.lead.zona) = 1 THEN 1 ELSE 2
\* row i comes before row j in the ranking
Outranks(i, j) ==
  LET rows == calc.q.rows
  IN \/ RankOf(rows[i]) < RankOf(rows[j])
     \/ RankOf(rows[i]) = RankOf(rows[j]) /\ i < j
\* C17: pickSuppliers, the service known and the query answering rows: it
\* returns the first three (or all, if fewer) of the ranking that puts the
\* suppliers of the lead's zone first, then those one zone away, then the
\* others, each group in query order (row i has id i); no id twice. With five
\* rows, one in the zone and two adjacent, it returns those three, the one in
\* the zone first.
C17_RankedTopThree ==
  Routed =>
    LET rows == calc.q.rows
        ids == calc.ids
    IN /\ Len(ids) = Min(3, Len(rows))
       /\ \A i \in 1..Len(ids) : ids[i] \in 1..Len(rows)
       /\ \A i, j \in 1..Len(ids) : i < j => ids[i] # ids[j] /\ Outranks(ids[i], ids[j])
       /\ \A k \in 1..Len(rows) :
            (\A i \in 1..Len(ids) : ids[i] # k) =>
              \A i \in 1..Len(ids) : Outranks(ids[i], k)
\* five suppliers, the fourth in the lead's zone, the second and the fifth
\* one zone away: the fourth, the second and the fifth are returned
C17_Witness ==
  /\ Routed /\ calc.lead.zona = 10
  /\ [i \in 1..Len(calc.q.rows) |-> calc.q.rows[i].zona] = <<14, 9, 14, 10, 11>>
  /\ calc.ids = <<4, 2, 5>>

Scored == calc.fn = "scoreLead"
\* C19: scoreLead is 40 if the urgency is now, plus 30 if the service is
\* plumber, electrician or locksmith, plus 20 if the zone is 10, 14 or 15, a
\* value between 0 and 100, for every urgency, service (or none) and zone (or
\* none); it depends on nothing else.
C19_ScoreFormula ==
  Scored =>
    LET plumber == <<"P", "l", "o", "m", "e", "r", "o">>
        electrician == <<"E", "l", "e", "c", "t", "r", "i", "c", "i", "s", "t", "a">>
        locksmith == <<"C", "e", "r", "r", "a", "j", "e", "r", "o">>
    IN /\ calc.score =
            (IF calc.lead.urgency = "Ahora" THEN 40 ELSE 0)
            + (IF calc.lead.service \in {plumber, electrician, locksmith}
                 THEN 30 ELSE 0)
            + (IF calc.lead.zona \in {10, 14, 15} THEN 20 ELSE 0)
       /\ calc.score \in 0..100
\* a lead with neither service nor zone, urgency now, scored 40
C19_Witness ==
  /\ Scored /\ calc.lead.service = <<>> /\ calc.lead.zona = NoZone
  /\ calc.lead.urgency = "Ahora" /\ calc.score = 40

\* C20: direct or queued, two messages that the handling of one event issued
\* to the same user reach that user in the order they were issued.
C20_InOrderDelivery ==
  \A i, j \in 1..Len(wa.inbox) :
    (/\ i < j
     /\ wa.inbox[i].e = wa.inbox[j].e
     /\ wa.inbox[i].to = wa.inbox[j].to) => wa.inbox[i].k < wa.inbox[j].k

\* the jobs whose message reached its user
Delivered == {wa.inbox[i] : i \in 1..Len(wa.inbox)}
\* the number of places message k of event e is in: waiting, with the worker,
\* delivered, given up
Places(e, k) ==
  Cardinality({i \in 1..Len(wa.waiting) : wa.waiting[i].e = e /\ wa.waiting[i].k = k})
  + Cardinality({job \in wa.active : job.e = e /\ job.k = k})
  + Cardinality({i \in 1..Len(wa.inbox) : wa.inbox[i].e = e /\ wa.inbox[i].k = k})
  + Cardinality({job \in wa.dropped : job.e = e /\ job.k = k})

\* C21: queued delivery. A message is tried 3 times at most: the try a job is
\* at is between 1 and 3, and a job is given up only at its third try. A
\* message is in one place only (waiting, with the worker, delivered or given
\* up) and none is lost. Every enqueued message is settled in the end,
\* delivered or given up: again and again no job is left waiting or running,
\* so none is retried forever. What settles a message is its own posts, so
\* the failing message of one user does not keep the later message of another
\* user from being delivered.
C21_BoundedRetries ==
  /\ [](Queued =>
          /\ \A job \in InFlight : job.attempt \in 1..Attempts
          /\ \A job \in wa.dropped : job.attempt = Attempts
          /\ \A job \in {Received(j) : j \in InFlight \cup wa.dropped} \cup Delivered :
               Places(job.e, job.k) = 1)
  /\ [][Issued' >= Issued]_vars
  /\ []<>(Queued => InFlight = {})
\* the notification of the technician failed twice and is at its third try,
\* and the final card, enqueued after it, has reached the user
C21_Witness ==
  /\ Queued
  /\ \E job \in InFlight :
       /\ job.to # USER /\ job.m.kind = "LeadNotify" /\ job.attempt = Attempts
       /\ \E later \in Delivered :
            /\ later.e = job.e /\ later.k > job.k
            /\ later.to = USER /\ later.m.kind = "Final"

\* C22: a stored session with finalAcked = true has its cooldown marker
\* present, also after the marker has expired with no event in between.
C22_AckedHasCooldown ==
  (sess # None /\ sess[1].finalAcked) => cool

\* the event arrived for a session that was DONE, its cooldown marker present
\* and finalAcked false
PreCooling == PreDone /\ ev.pre.cool /\ ~PreS.finalAcked
\* the body of the card a replay sends: the stored lastConfirmation, or the
\* text rebuilt from service, city and zone
ReplayBody(s) ==
  IF s.lastConfirmation # None THEN s.lastConfirmation[1]
  ELSE FinalText(CityTitle(s.city), s.zone, s.serviceId)
\* C23: while the session is DONE, the cooldown marker present and finalAcked
\* false, a non-reset text and the final_ack button each send the final card
\* with the stored lastConfirmation (or the rebuilt text) as its body, as the
\* one message, and store finalAcked = true.
C23_ReplayOnTextAndAck ==
  (/\ Handled /\ PreCooling
   /\ \/ ev.type = "text" /\ ~IsReset
      \/ ev.type = "button_reply" /\ ev.id = ID.final_ack) =>
    /\ out = <<[to |-> USER, m |-> sendFinalInteractive(ReplayBody(PreS)), ok |-> TRUE]>>
    /\ sess # None /\ sess[1].finalAcked

\* the ad prefill was applied: the ad-confirm card was sent
PrefillApplied == \E i \in 1..Len(out) : out[i].m.kind = "AdConfirm"
\* C24: a text whose ad tag gives a city, a zone and a service does not apply
\* the prefill when the session has started = true, nor when a text was
\* already handled for the session since it was created.
C24_AdOnlyOnFirstText ==
  (/\ Handled /\ ev.type = "text" /\ AdActionable(TextInputs[ev.id].ad)
   /\ ev.pre.sess # None
   /\ PreS.started \/ ev.pre.text) => ~PrefillApplied

\* C25: a service list reply on a session whose zone is not confirmed sends
\* the corrective text and then the zone-group prompt; the zona_confirm button
\* on a session without a zone sends the zone-group prompt alone. In both
\* cases the stored session is the one the handler started from: serviceId,
\* zoneConfirmed, urgency and finalAcked are as before.
C25_RefusedSelections ==
  /\ (/\ Handled /\ ev.type = "list_reply" /\ HasServiceLabel(ev.id)
      /\ ~PreS.zoneConfirmed) =>
       /\ out = <<[to |-> USER, m |-> sendText("first_zone"), ok |-> TRUE],
                  [to |-> USER, m |-> sendZonaGroupButtons, ok |-> TRUE]>>
       /\ sess = Some(PreS)
  /\ (/\ Handled /\ ev.type = "button_reply" /\ ev.id = ID.zona_confirm
      /\ PreS.zone = NoZone) =>
       /\ ZonaGroupOnly
       /\ sess = Some(PreS)
\* a service was picked from the list on a completed, acknowledged session
\* whose zone was never confirmed: it was refused and finalAcked stayed true
C25_Witness ==
  /\ Handled /\ ev.type = "list_reply" /\ HasServiceLabel(ev.id)
  /\ ev.pre.sess # None /\ ~PreS.zoneConfirmed /\ PreS.finalAcked
  /\ PreS.urgency # NULL
  /\ Len(out) = 2 /\ sess = ev.pre.sess

\* the event is a guided selection the handler accepts, final_ack excepted
AcceptedList ==
  /\ ev.type = "list_reply"
  /\ \/ IsCityId(ev.id) /\ ~CityLocked(PreS)
     \/ IsZonaId(ev.id)
     \/ HasServiceLabel(ev.id) /\ ~ServiceRefused(PreS)
AcceptedButton ==
  /\ ev.type = "button_reply"
  /\ \/ ev.id \in {ID.start_yes, ID.role_cliente, ID.zona_group_1_10,
                   ID.zona_group_11_20, ID.zona_group_21_25, ID.zona_change,
                   ID.ad_yes, ID.ad_change, ID.urgency_now, ID.urgency_later}
     \/ ev.id = ID.zona_confirm /\ PreS.zone # NoZone
     \/ /\ env.version = "V3.3.2"
        /\ \/ ev.id \in {ID.role_tecnico, ID.regex_change}
           \/ startsWith(ev.id, P_tech) /\ HasServiceLabel(TechNorm(ev.id))
           \/ /\ ev.id = ID.regex_confirm
              /\ PreS.pendingConfirm # None
              /\ PreS.pendingConfirm[1].serviceId # NULL
              /\ PreS.pendingConfirm[1].zona # NoZone
\* C26: after an accepted guided selection other than final_ack the stored
\* session has finalAcked = false, whatever it was before.
C26_SelectionResetsAck ==
  (Handled /\ (AcceptedList \/ AcceptedButton)) =>
    sess # None /\ ~sess[1].finalAcked

\* the text handler reached recoverUI: no reset, no prefill, the session not
\* DONE, and (V3.3.2) nothing for the free-text intake
ReachedRecoverUI ==
  /\ Handled /\ ev.type = "text" /\ ~IsReset
  /\ ~(~PreS.started /\ TextInputs[ev.id].ad.r = "throw")
  /\ ~(~PreS.started /\ AdActionable(TextInputs[ev.id].ad))
  /\ PreS.state # "DONE"
  /\ env.version = "V3.3.1" \/ ~FreeTextParsed(TextInputs[ev.id].parts)
\* the prompt for the first missing item, in the canonical order
PromptFor(s) ==
  IF ~s.started THEN sendStartConfirm
  ELSE IF s.city = NULL THEN sendCityMenu
  ELSE IF s.zone = NoZone THEN sendZonaGroupButtons
  ELSE IF ~s.zoneConfirmed THEN sendZonaConfirm(s.zone)
  ELSE IF s.serviceId = NULL THEN sendServicesList(CityTitle(s.city), s.zone)
  ELSE IF s.urgency = NULL THEN sendUrgencyQuestion
  ELSE sendFinalInteractive(FinalText(CityTitle(s.city), s.zone, s.serviceId))
\* C27: recoverUI sends one message, the prompt for the first item missing in
\* the order started, city, zone, zoneConfirmed, serviceId, urgency, and the
\* final card when none is missing; the session alone decides, not the text.
C27_RecoverFirstMissing ==
  ReachedRecoverUI => out = <<[to |-> USER, m |-> PromptFor(PreS), ok |-> TRUE]>>

\* the session the event arrived for holds a pendingConfirm: a free text
\* created it and no regex_change, completion or new session has cleared it
PendingHeld == ev.pre.sess # None /\ PreS.pendingConfirm # None
\* C28: while the session holds a pendingConfirm created by a free text, a
\* lead is emitted only by a regex_confirm button handled with a pendingConfirm
\* that holds service, zone and urgency.
C28_FreeTextNeedsConfirm ==
  (Handled /\ PendingHeld /\ leads # <<>>) =>
    /\ ev.type = "button_reply" /\ ev.id = ID.regex_confirm
    /\ PreS.pendingConfirm[1].serviceId # NULL
    /\ PreS.pendingConfirm[1].zona # NoZone
    /\ PreS.pendingConfirm[1].urgency # NULL

\* C29: pickSuppliers, the service known and the query answering rows, any
\* of the notifications rejected: the notifications attempted are those of
\* the selected suppliers, three at most, one each, in rank order; the ones
\* after a rejected notification are attempted all the same.
C29_EachSupplierNotifiedOnce ==
  Routed =>
    LET top == TopSuppliers(calc.q.rows, calc.lead.zona)
    IN /\ Len(top) <= 3
       /\ Len(calc.sent) = Len(top)
       /\ \A i \in 1..Len(top) :
            /\ calc.sent[i].to = top[i].phone
            /\ calc.sent[i].m = Msg("LeadNotify", <<calc.lead.zona, top[i].id>>)
            /\ calc.sent[i].ok = (i \notin calc.fails)
\* three suppliers were selected, the notification of the first was rejected
\* and the other two were sent
C29_Witness ==
  /\ Routed /\ Len(calc.ids) = 3 /\ calc.fails = {1}
  /\ Len(calc.sent) = 3
  /\ ~calc.sent[1].ok /\ calc.sent[2].ok /\ calc.sent[3].ok

\* ------------------------------------------------------------------------
\* A stored session that cannot be read back
\* ------------------------------------------------------------------------

\* a string under the session key of Redis that JSON.parse rejects
Unparseable == Some([raw |-> "{"])
\* sessGet: the positions of the handler that reject on the stored value
\* (with Redis the string is parsed, outside any try of its own; the
\* in-memory store holds the objects themselves)
sessGet(stored, useMemory) ==
  IF ~useMemory /\ stored = Unparseable THEN {0} ELSE {}

\* the string under the session key is replaced from outside the program
StoredValueDamaged ==
  /\ Idle
  /\ ~env.useMemory
  /\ sess # Unparseable
  /\ sess' = Unparseable
  /\ UNCHANGED <<env, cool, ev, out, leads, steps, leadSinceFresh,
                 textSinceFresh, acks, calc, wa, tm, hs>>

TextMessageC ==
  \E b \in {B.hola, B.full, B.ad_full} :
    \E fails \in {sessGet(sess, env.useMemory)} :
      Run("text", b,
          IF fails # {} THEN <<>>
          ELSE TextScript(Cur, cool, TextInputs[b].body, TextInputs[b].ad,
                          TextInputs[b].parts, env.version),
          fails)

ListReplyC ==
  \E id \in {CITIES[1].chars, ID.srv_plomero, ID.zona_10} :
    \E fails \in {sessGet(sess, env.useMemory)} :
      Run("list_reply", id,
          IF fails # {} THEN <<>> ELSE ListScript(Cur, id, env.version, TRUE),
          fails)

NextC ==
  \/ TextMessageC
  \/ ListReplyC
  \/ StoredValueDamaged
  \/ Respond
  \/ SessExpire

SpecC == Init /\ [][NextC]_vars

\* the event found no session, or one that cannot be parsed
NothingReadable == ~Idle /\ ev.pre.sess \in {None, Unparseable}
\* the handler created the fresh MENU session, stored it first of all, and
\* answered the user
HandledOnFresh ==
  /\ Len(steps) > 0
  /\ steps[1].op = "sessSet" /\ steps[1].s = FreshSession
  /\ sess # Unparseable
  /\ \E i \in 1..Len(out) : out[i].to = USER /\ out[i].ok
\* C30: an event that finds the stored session missing or not parseable is
\* handled on a newly created fresh MENU session, which is written to the
\* store, and the user is answered.
C30_UnreadableTreatedAbsent == NothingReadable => HandledOnFresh

\* the text carries an ad tag that does not give a zone in 1..25 and a known
\* service, or whose value cannot be percent-decoded
MalformedTag ==
  /\ Handled /\ ev.type = "text"
  /\ ev.id \in {B.ad_badzone, B.ad_noservice, B.ad_malformed}
\* the fields the user selects
Selection(s) == <<s.city, s.zone, s.zoneConfirmed, s.serviceId, s.urgency>>
\* C31: a text with a malformed ad tag, handled for a session that is not
\* DONE, leaves the selection fields of the session as they were and is
\* answered by a message to the user in the same event.
C31_MalformedTagIgnored ==
  (MalformedTag /\ ~PreDone) =>
    /\ sess # None /\ Selection(sess[1]) = Selection(PreS)
    /\ \E i \in 1..Len(out) : out[i].to = USER /\ out[i].ok

\* ------------------------------------------------------------------------
\* Expiry of the session entry and of the cooldown marker
\* ------------------------------------------------------------------------

\* the clock counts quarters of an hour
\* SESSION_TTL_HOURS, 6 by default
SessionTtl == 24
\* COOLDOWN_MINUTES, 45 by default
Cooldown == 3
\* the clock is followed up to this time
MaxTime == 26
\* at most this many expiries are pending for one store
MaxTimers == 2

\* the expiries pending after a write at time now: Redis SET .. EX replaces
\* the expiry of the key, the in-memory store starts one more setTimeout and
\* cancels none
Expiries(pending, now, ttl, useMemory) ==
  IF useMemory THEN pending \cup {now + ttl} ELSE {now + ttl}
\* the expiries pending after a delete: Redis DEL removes the key with its
\* expiry, the timers of the in-memory store keep running
Remaining(pending, useMemory) == IF useMemory THEN pending ELSE {}

\* sessSet(userId, s)
SessSetCall ==
  /\ Cardinality(tm.sessTimers \cup {tm.now + SessionTtl}) <= MaxTimers
  /\ sess' = Some(FreshSession)
  /\ tm' = [tm EXCEPT !.sessAt = Some(tm.now),
                      !.sessTimers = Expiries(@, tm.now, SessionTtl, env.useMemory)]
  /\ UNCHANGED <<env, cool, ev, out, leads, steps, leadSinceFresh, textSinceFresh,
                 acks, calc, wa, hs>>

\* sessDel(userId)
SessDelCall ==
  /\ sess # None
  /\ sess' = None
  /\ tm' = [tm EXCEPT !.sessAt = None,
                      !.sessTimers = Remaining(@, env.useMemory)]
  /\ UNCHANGED <<env, cool, ev, out, leads, steps, leadSinceFresh, textSinceFresh,
                 acks, calc, wa, hs>>

\* an expiry of the session entry is due: the callback () => mem.delete(userId),
\* or the key leaving Redis
SessTimerFires ==
  /\ tm.now \in tm.sessTimers
  /\ sess' = None
  /\ tm' = [tm EXCEPT !.sessTimers = @ \ {tm.now}]
  /\ UNCHANGED <<env, cool, ev, out, leads, steps, leadSinceFresh, textSinceFresh,
                 acks, calc, wa, hs>>

\* coolSet(userId)
CoolSetCall ==
  /\ Cardinality(tm.coolTimers \cup {tm.now + Cooldown}) <= MaxTimers
  /\ cool' = TRUE
  /\ tm' = [tm EXCEPT !.coolAt = Some(tm.now),
                      !.coolTimers = Expiries(@, tm.now, Cooldown, env.useMemory)]
  /\ UNCHANGED <<env, sess, ev, out, leads, steps, leadSinceFresh, textSinceFresh,
                 acks, calc, wa, hs>>

\* coolDel(userId), called by the reset
CoolDelCall ==
  /\ cool
  /\ cool' = FALSE
  /\ tm' = [tm EXCEPT !.coolAt = None,
                      !.coolTimers = Remaining(@, env.useMemory)]
  /\ UNCHANGED <<env, sess, ev, out, leads, steps, leadSinceFresh, textSinceFresh,
                 acks, calc, wa, hs>>

\* an expiry of the cooldown marker is due: () => memCool.delete(k), or the
\* key leaving Redis
CoolTimerFires ==
  /\ tm.now \in tm.coolTimers
  /\ cool' = FALSE
  /\ tm' = [tm EXCEPT !.coolTimers = @ \ {tm.now}]
  /\ UNCHANGED <<env, sess, ev, out, leads, steps, leadSinceFresh, textSinceFresh,
                 acks, calc, wa, hs>>

\* a quarter of an hour passes; the expiries that are due have fired
Tick ==
  /\ tm.now < MaxTime
  /\ tm.now \notin tm.sessTimers \cup tm.coolTimers
  /\ tm' = [tm EXCEPT !.now = @ + 1]
  /\ UNCHANGED <<env, sess, cool, ev, out, leads, steps, leadSinceFresh,
                 textSinceFresh, acks, calc, wa, hs>>

NextT ==
  \/ SessSetCall
  \/ SessDelCall
  \/ SessTimerFires
  \/ CoolSetCall
  \/ CoolDelCall
  \/ CoolTimerFires
  \/ Tick

SpecT == Init /\ [][NextT]_vars

\* C32: with the in-memory store, a session written and not deleted since is
\* readable as long as less than SESSION_TTL has passed since its latest
\* write.
C32_SessionLivesFullTtl ==
  (env.useMemory /\ tm.sessAt # None /\ tm.now < tm.sessAt[1] + SessionTtl) =>
    sess # None

\* C33: with the in-memory store, a cooldown marker armed and not deleted by
\* a reset since is present as long as less than COOLDOWN has passed since it
\* was armed, whatever markers were armed before it.
C33_CooldownLivesFullWindow ==
  (env.useMemory /\ tm.coolAt # None /\ tm.now < tm.coolAt[1] + Cooldown) => cool

\* ------------------------------------------------------------------------
\* Two events of the same user handled side by side, with Redis
\* ------------------------------------------------------------------------

\* the events that meet
RaceEvents ==
  {[type |-> "button_reply", id |-> ID.urgency_now],
   [type |-> "button_reply", id |-> ID.urgency_later],
   [type |-> "list_reply", id |-> ID.zona_10]}

\* the operations of the handler of event e, from the copy s it read; the
\* lead is inserted and one technician is found
ScriptOf(e, s) ==
  IF e.type = "button_reply"
    THEN UrgencyScript(s, e.id, env.version, env.adminPhone, TRUE, FALSE,
                       [error |-> FALSE, rows |-> <<Tech(2)>>])
    ELSE ListScript(s, e.id, env.version, TRUE)

\* a write that is dropped when the stored value changed since it was read
Written_checked(stored, read, s) == IF stored = read THEN Some(s) ELSE stored
\* redis.set: the stored value after sessSet(from, s), whatever it was and
\* whatever the handler had read
Written(stored, read, s) == Some(s)

\* no sessSet was reached yet by handler i
NothingWritten(i) ==
  hs.h[i].phase = "idle"
  \/ \A k \in 1..hs.h[i].pc : hs.h[i].script[k].op # "sessSet"

\* the text that brings the session to the urgency question, before the two
\* events meet
TextMessageR ==
  /\ hs = NoRace
  /\ \E b \in {B.hola, B.ad_full} :
       Handle("text", b,
              TextScript(Cur, cool, TextInputs[b].body, TextInputs[b].ad,
                         TextInputs[b].parts, env.version))

\* an event arrives and its handler reads the session: await sessGet(from);
\* handler 2 is the one that arrives second
Arrive(i) ==
  /\ Idle
  /\ ~env.useMemory
  /\ hs.h[i].phase = "idle"
  /\ i = 2 => hs.h[1].phase # "idle"
  /\ \E e \in RaceEvents :
       hs' = [hs EXCEPT !.h[i] =
                [phase |-> "run", e |-> e, read |-> sess,
                 script |-> Ensure \o ScriptOf(e, Cur), pc |-> 0,
                 early |-> \A j \in 1..2 : NothingWritten(j)]]
  /\ UNCHANGED <<env, sess, cool, ev, out, leads, steps, leadSinceFresh,
                 textSinceFresh, acks, calc, wa, tm>>

\* the handler reaches its next await: one operation takes effect
Advance(i) ==
  /\ hs.h[i].phase = "run"
  /\ hs.h[i].pc < Len(hs.h[i].script)
  /\ LET o == hs.h[i].script[hs.h[i].pc + 1]
     IN \E st \in {Exec(<<o>>, [sess |-> sess, cool |-> cool, out |-> out,
                                leads |-> leads, steps |-> <<>>,
                                lead |-> leadSinceFresh, acks |-> acks, res |-> 0],
                        {}, FALSE)} :
          /\ sess' = IF o.op = "sessSet" THEN Written(sess, hs.h[i].read, o.s)
                     ELSE st.sess
          /\ cool' = st.cool
          /\ out' = st.out
          /\ leads' = st.leads
          /\ leadSinceFresh' = st.lead
          /\ acks' = st.acks
          /\ hs' = [hs EXCEPT !.h[i].pc = @ + 1,
                              !.lastSet = IF o.op = "sessSet"
                                            THEN Some([by |-> i, s |-> o.s]) ELSE @]
  /\ UNCHANGED <<env, ev, steps, textSinceFresh, calc, wa, tm>>

\* return done(): the handler answers 200
Finish(i) ==
  /\ hs.h[i].phase = "run"
  /\ hs.h[i].pc = Len(hs.h[i].script)
  /\ hs' = [hs EXCEPT !.h[i].phase = "done"]
  /\ UNCHANGED <<env, sess, cool, ev, out, leads, steps, leadSinceFresh,
                 textSinceFresh, acks, calc, wa, tm>>

NextR ==
  \/ TextMessageR
  \/ Respond
  \/ \E i \in 1..2 : Arrive(i)
  \/ \E i \in 1..2 : Advance(i)
  \/ \E i \in 1..2 : Finish(i)

SpecR == Init /\ [][NextR]_vars

\* both handlers have answered, and each had read the session before either
\* wrote it
RacedAndDone ==
  /\ \A i \in 1..2 : hs.h[i].phase = "done"
  /\ hs.h[2].early
\* the session that handling the event of handler i alone, on what it read,
\* leaves in the store
SoloCopy(i) ==
  Exec(hs.h[i].script,
       [sess |-> hs.h[i].read, cool |-> FALSE, out |-> <<>>, leads |-> <<>>,
        steps |-> <<>>, lead |-> FALSE, acks |-> 0, res |-> 0], {}, FALSE).sess
IsUrgencyAnswer(i) == hs.h[i].e.id \in {ID.urgency_now, ID.urgency_later}
\* C34: with Redis, two events of one user whose handlers both read the
\* session before either writes it: when both have answered, the stored
\* session is the copy of the handler that wrote last, as if the other event
\* had not been handled; when both are urgency answers, two leads were
\* emitted, one by each handler.
C34_LastWriteWins ==
  RacedAndDone =>
    /\ hs.lastSet # None =>
         /\ sess = Some(hs.lastSet[1].s)
         /\ sess = SoloCopy(hs.lastSet[1].by)
    /\ (IsUrgencyAnswer(1) /\ IsUrgencyAnswer(2)) =>
         /\ Len(leads) = 2
         /\ {leads[k].lead.urgency : k \in 1..2}
              = {UrgencyLabel(SoloCopy(i)[1].urgency) : i \in 1..2}
\* "now" and "later" were answered side by side, handler 1 wrote last: two
\* leads went out and the urgency stored by handler 2 is lost
C34_Witness ==
  /\ RacedAndDone
  /\ hs.h[1].e.id = ID.urgency_now /\ hs.h[2].e.id = ID.urgency_later
  /\ hs.lastSet # None /\ hs.lastSet[1].by = 1
  /\ Len(leads) = 2
  /\ sess[1].urgency = "now" /\ SoloCopy(2)[1].urgency = "later"

\* C35: every lead passed to saveLeadToSupabase has a service label of the
\* catalog and a zone in 1..25.
C35_LeadHasServiceAndZone ==
  \A k \in 1..Len(leads) :
    /\ \E i \in 1..Len(SERVICES) : SERVICES[i].label = leads[k].lead.service
    /\ leads[k].lead.zona \in 1..25

\* ------------------------------------------------------------------------
\* Free text given one field at a time
\* ------------------------------------------------------------------------

TextMessageW ==
  \E b \in WordBodies \cup {B.ad_full} :
    Handle("text", b,
           TextScript(Cur, cool, TextInputs[b].body, TextInputs[b].ad,
                      TextInputs[b].parts, env.version))

ButtonReplyW ==
  \E id \in {ID.zona_change, ID.regex_change} :
    Handle("button_reply", id, ButtonScript(Cur, cool, id, env.version))

\* the lead is inserted and one technician is found
UrgencyAnswerW ==
  Handle("button_reply", ID.urgency_now,
         UrgencyScript(Cur, ID.urgency_now, env.version, env.adminPhone, TRUE, FALSE,
                       [error |-> FALSE, rows |-> <<Tech(2)>>]))

RegexConfirmW ==
  /\ env.version = "V3.3.2"
  /\ Handle("button_reply", ID.regex_confirm,
            RegexConfirmScript(Cur, env.adminPhone, TRUE, FALSE,
                               [error |-> FALSE, rows |-> <<Tech(2)>>]))

NextW ==
  \/ TextMessageW
  \/ ButtonReplyW
  \/ UrgencyAnswerW
  \/ RegexConfirmW
  \/ Respond

SpecW == Init /\ [][NextW]_vars

\* a text went through the free-text intake of V3.3.2
FreeTextTaken ==
  /\ Handled /\ ev.type = "text" /\ env.version = "V3.3.2"
  /\ FreeTextParsed(TextInputs[ev.id].parts)
  /\ \E k \in 1..Len(steps) :
       steps[k].op = "sessSet" /\ steps[k].s.pendingConfirm # None
\* which of service, zone and urgency a partial lead holds
Given(pc) == <<pc.serviceId # NULL, pc.zona # NoZone, pc.urgency # NULL>>
\* C36: a text taken by the free-text intake while pendingConfirm holds
\* fields from an earlier text adds to them: afterwards pendingConfirm holds
\* every field that this text, the earlier pendingConfirm or the session
\* gives, and the one message sent asks for the first field still missing
\* among those, or is the confirmation card when none is missing.
C36_FreeTextAccumulates ==
  (FreeTextTaken /\ PreS.pendingConfirm # None) =>
    LET old == PreS.pendingConfirm[1]
        new == PendingOf(PreS, TextInputs[ev.id].parts)
        all == [serviceId |-> IF new.serviceId # NULL THEN new.serviceId
                              ELSE old.serviceId,
                zona |-> IF new.zona # NoZone THEN new.zona ELSE old.zona,
                urgency |-> IF new.urgency # NULL THEN new.urgency ELSE old.urgency]
    IN /\ sess # None /\ sess[1].pendingConfirm # None
       /\ Given(sess[1].pendingConfirm[1]) = Given(all)
       /\ Len(out) = 1 /\ out[1].to = USER
       /\ out[1].m.kind = FreeTextPrompt(all).kind
       /\ out[1].m.kind # "RegexConfirm" => out[1].m = FreeTextPrompt(all)

\* the event left the stored session DONE and had not found it so
EnteredDone ==
  /\ Handled /\ ~PreDone
  /\ sess # None /\ sess[1].state = "DONE"
\* C37: an event that brings the stored session from a state other than DONE
\* to DONE emits a lead and arms the cooldown marker while it is handled.
C37_DoneOnlyWithLead ==
  EnteredDone =>
    /\ Len(leads) >= 1
    /\ \E k \in 1..Len(steps) : steps[k].op = "coolSet"
    /\ cool

\* C38: direct delivery; the session DONE, the cooldown marker present and
\* finalAcked false: when the send of a non-reset text's replay, or of the
\* final_ack button's answer, is rejected, the stored session still has
\* finalAcked = false.
C38_AckNeedsDelivery ==
  (/\ Handled /\ PreCooling
   /\ \/ ev.type = "text" /\ ~IsReset
      \/ ev.type = "button_reply" /\ ev.id = ID.final_ack
   /\ \E i \in 1..Len(out) : out[i].to = USER /\ ~out[i].ok) =>
    sess # None /\ ~sess[1].finalAcked

\* ------------------------------------------------------------------------
\* The technician onboarding of V3.3.2
\* ------------------------------------------------------------------------

\* the id of the row "Plomero" of the list that role_tecnico sends
TechRowId == P_tech \o ID.srv_plomero

\* the last id is none the webhook's own lists offer: the one button id that
\* "technician - service selected" accepts for the service
ButtonReplyK ==
  \E id \in {ID.start_yes, ID.role_tecnico, TechRowId, P_tech_srv \o ID.srv_plomero} :
    Handle("button_reply", id, ButtonScript(Cur, cool, id, env.version))

ListReplyK ==
  \E id \in {TechRowId, ID.zona_10} :
    \E techOk \in BOOLEAN :
      Handle("list_reply", id, ListScript(Cur, id, env.version, techOk))

NextK ==
  \/ ButtonReplyK
  \/ ListReplyK
  \/ Respond

SpecK == Init /\ [][NextK]_vars

\* C39: V3.3.2, the role tecnico chosen: the list reply tech_<serviceId>
\* stores that service as techServiceId; an exact-zone list reply handled
\* while techServiceId is set answers with the registration message, clears
\* techServiceId and leaves zone, zoneConfirmed, serviceId and urgency as they
\* were.
C39_TechnicianCanRegister ==
  (Handled /\ env.version = "V3.3.2" /\ ev.type = "list_reply"
   /\ PreS.role = "tecnico") =>
    /\ ev.id = TechRowId =>
         sess # None /\ sess[1].techServiceId = "srv_plomero"
    /\ (ev.id = ID.zona_10 /\ PreS.techServiceId # NULL) =>
         /\ sess # None /\ sess[1].techServiceId = NULL
         /\ Selection(sess[1]) = Selection(PreS)
         /\ \E i \in 1..Len(out) :
              out[i].m \in {sendText("tech_done"), sendText("tech_fail")}

\* C40: the session holding urgency = now, a free text that gives no urgency
\* of its own: the confirmation card, when it is sent, shows the request as
\* urgent, and the lead emitted by regex_confirm on that partial lead has
\* urgency Ahora.
C40_KnownUrgencyKept ==
  /\ (FreeTextTaken /\ PreS.urgency = "now"
      /\ TextInputs[ev.id].parts.urgency = NULL) =>
       \A i \in 1..Len(out) :
         out[i].m.kind = "RegexConfirm" => out[i].m.p[3] = "Urgente"
  /\ (/\ Handled /\ ev.type = "button_reply" /\ ev.id = ID.regex_confirm
      /\ PreS.pendingConfirm # None /\ PreS.pendingConfirm[1].urgency = "now") =>
       \A k \in 1..Len(leads) : leads[k].lead.urgency = "Ahora"

====
